---- MODULE Spec2Model ----
(***************************************************************************)
(* Office-SmartSuite: the in-memory device state store of the backend      *)
(* (Backend/routes/dashboard.js) and the poll ticks of the dashboard tabs  *)
(* that merge it with the ThingSpeak telemetry feed.                       *)
(*                                                                         *)
(* Time is in milliseconds.  JavaScript values that a handler inspects     *)
(* with typeof are records [kind, val].                                    *)
(***************************************************************************)
EXTENDS Integers, Sequences, FiniteSets, TLC

VARIABLES
  smartLight,    \* smartOfficeState.smartLight {autoMode, lightOn, ldrValue}
  alertMode,     \* smartOfficeState.alertMode
  alertHistory,  \* smartOfficeState.alertHistory, newest first
  accessSafety,  \* smartOfficeState.accessSafety {gateOpen, fireSystemOn, attendance}
  gateTimers,    \* pending setTimeout callbacks of rfid-scan: their due times
  espPending,    \* light-control handlers suspended in axios.get to the ESP
  espLed,        \* the last command the ESP accepted
  req,           \* the last request the backend handled
  res,           \* the last response the backend sent
  now,           \* Date.now()
  calls,         \* number of POST requests handled so far
  pure,          \* a telemetry sample and the boolean a poll tick derives from it
  activeView,    \* DashboardApp: the tab that is mounted
  auth,          \* the users of the auth API and the state of the AuthModal form
  sim,           \* the simulated Alerts tab: its state and its timers
  toggles,       \* AlertsTab: the toggle-mode requests of handleAlertModeToggle in flight
  alertsData,    \* AlertsTab: data (the view model)
  alertsTicks,   \* AlertsTab: the fetchData calls in flight
  logPosts,      \* AlertsTab: log-motion requests in flight
  ticks,         \* poll ticks started so far
  lastTick,      \* AlertsTab: what the last tick that ended read and did
  run,           \* AlertsTab: the flags of the ticks that ran one after another
  accessData,    \* AccessSafetyTab: data (the view model)
  accessTicks,   \* AccessSafetyTab: the fetchData calls in flight
  lastAccessTick \* AccessSafetyTab: what the last tick that ended read and showed

backendVars == <<smartLight, alertMode, alertHistory, accessSafety,
                 gateTimers, espPending, espLed, req, res, now, calls>>

alertsVars == <<alertsData, alertsTicks, logPosts, lastTick, run>>

accessVars == <<accessData, accessTicks, lastAccessTick>>

tabVars == <<activeView, ticks, auth, sim, toggles, alertsVars, accessVars>>

frontVars == <<pure, tabVars>>

vars == <<backendVars, frontVars>>

(***************************************************************************)
(* Bounds of the model.                                                    *)
(***************************************************************************)
MaxCalls    == 3   \* POST requests per behaviour
MaxScans    == 2   \* rfid scans per behaviour
MaxEsp      == 2   \* light-control handlers suspended at the same time
MaxAdvance  == 4   \* clock steps per behaviour
MaxTicks    == 2   \* poll ticks per behaviour
MaxRunTicks == 4   \* poll ticks per behaviour, where the ticks run one after another
MaxInFlight == 1   \* fetchData calls of a tab in flight at the same time
MaxLogCalls == 18  \* log-motion requests per behaviour: the history overflows
MaxToggles  == 1   \* turns of the fire system switch while the tab polls
MaxSignups  == 2   \* signup handlers suspended at the same time
MaxAccounts == 3   \* accounts created per behaviour
MaxPending  == 2   \* toggle-mode requests of the tab in flight at the same time
MaxSimClock == 12  \* clock steps per behaviour of the simulated Alerts tab
MaxLogScans == 18  \* rfid scans per behaviour, where nothing but scans happens

(***************************************************************************)
(* Program constants.                                                      *)
(***************************************************************************)
LDR_THRESHOLD     == 500
GATE_CLOSE_MS     == 3000
HISTORY_CAPACITY  == 20
ALERTS_DATA_RECENCY_THRESHOLD_MS == 3000
ACCESS_DATA_RECENCY_THRESHOLD_MS == 30000
THINGSPEAK_INTRUDER_FIELD_ID     == 6
THINGSPEAK_RFID_TAG_FIELD_ID     == 7
THINGSPEAK_ACCESS_STATUS_FIELD_ID == 8
ALERTS_REFRESH_RATE_MS           == 2000
ACCESS_REFRESH_RATE_MS           == 10000
THINGSPEAK_FIRE_FIELD_ID         == 5
ClockStep         == GATE_CLOSE_MS \div 3

(***************************************************************************)
(* JavaScript values of a request body field.                              *)
(***************************************************************************)
Undefined   == [kind |-> "undefined", val |-> FALSE]
JsBool(b)   == [kind |-> "boolean", val |-> b]
JsString    == [kind |-> "string", val |-> TRUE]
JsValues    == {Undefined, JsBool(TRUE), JsBool(FALSE), JsString}
IsBoolean(v) == v.kind = "boolean"

RemoveAt(s, i) == SubSeq(s, 1, i - 1) \o SubSeq(s, i + 1, Len(s))

(***************************************************************************)
(* The store after construction.                                           *)
(***************************************************************************)
InitSmartLight == [autoMode |-> TRUE, lightOn |-> FALSE, ldrValue |-> 450]

InitAlertHistory ==
  << [id |-> "1", timestamp |-> "2025-11-18 14:32:15", type |-> "Motion Detected", status |-> "Resolved"],
     [id |-> "2", timestamp |-> "2025-11-18 13:45:22", type |-> "Unauthorized Movement", status |-> "Resolved"],
     [id |-> "3", timestamp |-> "2025-11-18 12:18:09", type |-> "Motion Detected", status |-> "Resolved"] >>

InitAttendance ==
  << [id |-> "1", employeeId |-> "A1234", name |-> "John Smith", time |-> "08:30 AM"],
     [id |-> "2", employeeId |-> "A2345", name |-> "Sarah Johnson", time |-> "08:45 AM"],
     [id |-> "3", employeeId |-> "A3456", name |-> "Mike Davis", time |-> "09:30 AM"] >>

InitAccessSafety ==
  [gateOpen |-> FALSE, fireSystemOn |-> TRUE, attendance |-> InitAttendance]

NoRequest  == [route |-> "none", body |-> <<>>]
NoResponse == [route |-> "none", status |-> 0, body |-> <<>>]
\* a handler that is suspended has sent no response yet
Pending(route) == [route |-> route, status |-> 0, body |-> <<>>]

InitBackend ==
  /\ smartLight = InitSmartLight
  /\ alertMode = TRUE
  /\ alertHistory = InitAlertHistory
  /\ accessSafety = InitAccessSafety
  /\ gateTimers = <<>>
  /\ espPending = <<>>
  /\ espLed = "none"
  /\ req = NoRequest
  /\ res = NoResponse
  /\ now = 0
  /\ calls = 0

(***************************************************************************)
(* POST /monitoring/light-control                                          *)
(***************************************************************************)
LightBodies == [autoMode : JsValues, lightOn : JsValues]

\* the handler without its step 3: the manual value is kept in auto mode
UpdateSmartLightNoAuto(sl, body) ==
  LET s1 == IF IsBoolean(body.autoMode)
              THEN [sl EXCEPT !.autoMode = body.autoMode.val] ELSE sl
  IN  IF IsBoolean(body.lightOn)
        THEN [s1 EXCEPT !.lightOn = body.lightOn.val] ELSE s1

\* steps 1-3 of the handler: the smartLight the store holds when the handler
\* reaches its hardware call
UpdateSmartLight(sl, body) ==
  LET s1 == IF IsBoolean(body.autoMode)
              THEN [sl EXCEPT !.autoMode = body.autoMode.val] ELSE sl
      s2 == IF IsBoolean(body.lightOn) /\ ~s1.autoMode
              THEN [s1 EXCEPT !.lightOn = body.lightOn.val] ELSE s1
  IN  IF s2.autoMode
        THEN [s2 EXCEPT !.lightOn = (s2.ldrValue < LDR_THRESHOLD)] ELSE s2

\* step 4: is the command sent to the hardware
SendsEspCommand(sl, body) ==
  \/ ~sl.autoMode
  \/ (IsBoolean(body.lightOn) /\ ~sl.autoMode)
  \/ IsBoolean(body.autoMode)

LightResponse(sl) ==
  [route |-> "light-control", status |-> 200,
   body |-> [message |-> "Light state updated", smartLight |-> sl]]

LightControl(body) ==
  LET sl == UpdateSmartLight(smartLight, body) IN
  /\ calls < MaxCalls
  /\ smartLight' = sl
  /\ req' = [route |-> "light-control", body |-> body]
  /\ calls' = calls + 1
  /\ IF SendsEspCommand(sl, body)
       THEN /\ Len(espPending) < MaxEsp
            /\ espPending' = Append(espPending,
                 [espCommand |-> IF sl.lightOn THEN "on" ELSE "off", own |-> sl])
            /\ res' = Pending("light-control")
       ELSE /\ res' = LightResponse(sl)
            /\ UNCHANGED espPending
  /\ UNCHANGED <<alertMode, alertHistory, accessSafety, gateTimers, espLed, now>>

\* the catch of the hardware call writes the store back to what the ESP holds
LightControlRollsBack(i, accepted) ==
  /\ i \in 1..Len(espPending)
  /\ espPending' = RemoveAt(espPending, i)
  /\ espLed' = IF accepted THEN espPending[i].espCommand ELSE espLed
  /\ smartLight' = IF accepted \/ espLed = "none" THEN smartLight
                   ELSE [smartLight EXCEPT !.lightOn = (espLed = "on")]
  /\ res' = LightResponse(smartLight')
  /\ UNCHANGED <<alertMode, alertHistory, accessSafety, gateTimers,
                 req, now, calls>>

\* the hardware call of the i-th suspended handler returns (the ESP accepted
\* the command) or throws (it did not); the catch only logs, and the handler
\* answers with the smartLight object of the store either way
LightControlRespond(i, accepted) ==
  /\ i \in 1..Len(espPending)
  /\ espPending' = RemoveAt(espPending, i)
  /\ espLed' = IF accepted THEN espPending[i].espCommand ELSE espLed
  /\ res' = LightResponse(smartLight)
  /\ UNCHANGED <<smartLight, alertMode, alertHistory, accessSafety, gateTimers,
                 req, now, calls>>

\* GET /monitoring
GetAirStatus(value) ==
  IF value < 100 THEN "Good" ELSE IF value < 200 THEN "Moderate" ELSE "Poor"

GetMonitoring ==
  /\ req' = [route |-> "monitoring", body |-> <<>>]
  /\ res' = [route |-> "monitoring", status |-> 200,
             body |-> [smartLight |-> smartLight,
                       airQuality |-> [airQualityIndex |-> 85, temperature |-> 24],
                       airQualityStatus |-> GetAirStatus(85)]]
  /\ UNCHANGED <<smartLight, alertMode, alertHistory, accessSafety, gateTimers,
                 espPending, espLed, now, calls>>

(***************************************************************************)
(* The clock.                                                              *)
(***************************************************************************)
Advance ==
  /\ now < MaxAdvance * ClockStep
  /\ now' = now + ClockStep
  /\ UNCHANGED <<smartLight, alertMode, alertHistory, accessSafety, gateTimers,
                 espPending, espLed, req, res, calls>>

(***************************************************************************)
(* Alerts routes.                                                          *)
(***************************************************************************)
\* GET /alerts
\* GET /alerts answers false whatever the store holds
AlertsResponseFalse ==
  [alertMode |-> FALSE, motionDetected |-> FALSE, alertHistory |-> alertHistory]

AlertsResponse ==
  [alertMode |-> alertMode, motionDetected |-> FALSE, alertHistory |-> alertHistory]

GetAlerts ==
  /\ req' = [route |-> "alerts", body |-> <<>>]
  /\ res' = [route |-> "alerts", status |-> 200, body |-> AlertsResponse]
  /\ UNCHANGED <<smartLight, alertMode, alertHistory, accessSafety, gateTimers,
                 espPending, espLed, now, calls>>

\* POST /alerts/toggle-mode
ToggleMode(v) ==
  /\ calls < MaxCalls
  /\ calls' = calls + 1
  /\ req' = [route |-> "toggle-mode", body |-> [alertMode |-> v]]
  /\ IF IsBoolean(v)
       THEN /\ alertMode' = v.val
            /\ res' = [route |-> "toggle-mode", status |-> 200, body |-> <<>>]
       ELSE /\ UNCHANGED alertMode
            /\ res' = [route |-> "toggle-mode", status |-> 400, body |-> <<>>]
  /\ UNCHANGED <<smartLight, alertHistory, accessSafety, gateTimers, espPending, espLed, now>>

\* new Date().toLocaleString(...): the clock rendered to the second
FormatTimestamp(t) == ToString(t \div 1000)

\* the body of a log-motion request: absent fields are the empty string
LogBodies ==
  { [type |-> "", status |-> ""],
    [type |-> "Unauthorized Movement", status |-> "Active"] }

NewAlert(body, t) ==
  [id |-> ToString(t), timestamp |-> FormatTimestamp(t),
   type |-> IF body.type = "" THEN "Motion Detected" ELSE body.type,
   status |-> IF body.status = "" THEN "Active" ELSE body.status]

PushAlertNoPop(history, alert) == <<alert>> \o history

\* unshift, then pop when the history is longer than the capacity
PushAlert(history, alert) ==
  LET h == <<alert>> \o history
  IN  IF Len(h) > HISTORY_CAPACITY THEN SubSeq(h, 1, Len(h) - 1) ELSE h

\* POST /alerts/log-motion
LogMotion(body) ==
  /\ alertHistory' = PushAlert(alertHistory, NewAlert(body, now))
  /\ calls' = calls + 1
  /\ req' = [route |-> "log-motion", body |-> body]
  /\ res' = [route |-> "log-motion", status |-> 200,
             body |-> [message |-> "Alert logged", newAlert |-> NewAlert(body, now)]]
  /\ UNCHANGED <<smartLight, alertMode, accessSafety, gateTimers, espPending, espLed, now>>

(***************************************************************************)
(* Access and safety routes.                                               *)
(***************************************************************************)
names == <<"Emma Wilson", "David Brown", "Lisa Chen">>

\* Math.floor(1000 + Math.random() * 9000): the ends of its range
EmployeeNumbers == {1000, 9999}

\* toLocaleTimeString(hour, minute): the clock rendered to the minute
FormatTime(t) == ToString((t \div 3600000) % 24) \o ":" \o ToString((t \div 60000) % 60)

\* GET /access-safety
GetAccessSafety ==
  /\ req' = [route |-> "access-safety", body |-> <<>>]
  /\ res' = [route |-> "access-safety", status |-> 200,
             body |-> [attendance |-> accessSafety.attendance,
                       fireSystemOn |-> accessSafety.fireSystemOn,
                       fireDetected |-> FALSE,
                       gateOpen |-> accessSafety.gateOpen]]
  /\ UNCHANGED <<smartLight, alertMode, alertHistory, accessSafety, gateTimers,
                 espPending, espLed, now, calls>>

NewRecord(n, num, t) ==
  [id |-> ToString(t), employeeId |-> "A" \o ToString(num), name |-> names[n],
   time |-> FormatTime(t)]

\* push instead of unshift
ScanUpdatePush(as, record) ==
  [as EXCEPT !.attendance = Append(as.attendance, record), !.gateOpen = TRUE]

\* attendance.unshift(newRecord); gateOpen = true
ScanUpdate(as, record) ==
  [as EXCEPT !.attendance = <<record>> \o as.attendance, !.gateOpen = TRUE]

\* the scan schedules no auto-close
ScheduleGateCloseNever(timers, t) == timers

\* setTimeout(() => gateOpen = false, 3000)
ScheduleGateClose(timers, t) == Append(timers, t + GATE_CLOSE_MS)

\* POST /access-safety/rfid-scan: the handler
RfidScanHandler(n, num) ==
  /\ calls' = calls + 1
  /\ accessSafety' = ScanUpdate(accessSafety, NewRecord(n, num, now))
  /\ gateTimers' = ScheduleGateClose(gateTimers, now)
  /\ req' = [route |-> "rfid-scan", body |-> <<>>]
  /\ res' = [route |-> "rfid-scan", status |-> 200,
             body |-> [newRecord |-> NewRecord(n, num, now), gateOpen |-> TRUE]]
  /\ UNCHANGED <<smartLight, alertMode, alertHistory, espPending, espLed, now>>

\* a scan of a behaviour with at most MaxScans scans, whose timer runs
\* before the clock stops
RfidScan(n, num) ==
  /\ calls < MaxCalls
  /\ Len(accessSafety.attendance) < Len(InitAttendance) + MaxScans
  /\ now + GATE_CLOSE_MS <= MaxAdvance * ClockStep
  /\ RfidScanHandler(n, num)

\* is the timer callback at the head of the timer queue due
TimerDue(timers, t) == Len(timers) > 0 /\ Head(timers) <= t

\* the callback of the oldest pending timer runs
GateTimerFire ==
  /\ TimerDue(gateTimers, now)
  /\ gateTimers' = Tail(gateTimers)
  /\ accessSafety' = [accessSafety EXCEPT !.gateOpen = FALSE]
  /\ UNCHANGED <<smartLight, alertMode, alertHistory, espPending, espLed, req, res, now, calls>>

\* the test signal is answered 200 also when the fire system is off
FireTestAlwaysSent ==
  /\ calls < MaxCalls
  /\ calls' = calls + 1
  /\ req' = [route |-> "fire-test", body |-> <<>>]
  /\ res' = [route |-> "fire-test", status |-> 200, body |-> <<>>]
  /\ UNCHANGED <<smartLight, alertMode, alertHistory, accessSafety, gateTimers,
                 espPending, espLed, now>>

\* POST /access-safety/fire-test
FireTest ==
  /\ calls < MaxCalls
  /\ calls' = calls + 1
  /\ req' = [route |-> "fire-test", body |-> <<>>]
  /\ res' = [route |-> "fire-test",
             status |-> IF accessSafety.fireSystemOn THEN 200 ELSE 400, body |-> <<>>]
  /\ UNCHANGED <<smartLight, alertMode, alertHistory, accessSafety, gateTimers,
                 espPending, espLed, now>>

\* POST /access-safety/fire-system-toggle
FireSystemToggle(v) ==
  /\ calls < MaxCalls
  /\ calls' = calls + 1
  /\ req' = [route |-> "fire-system-toggle", body |-> [fireSystemOn |-> v]]
  /\ IF IsBoolean(v)
       THEN /\ accessSafety' = [accessSafety EXCEPT !.fireSystemOn = v.val]
            /\ res' = [route |-> "fire-system-toggle", status |-> 200,
                       body |-> [fireSystemOn |-> v.val]]
       ELSE /\ UNCHANGED accessSafety
            /\ res' = [route |-> "fire-system-toggle", status |-> 400, body |-> <<>>]
  /\ UNCHANGED <<smartLight, alertMode, alertHistory, gateTimers, espPending, espLed, now>>

(***************************************************************************)
(* The server: the layers of the app, the layers of the dashboard router   *)
(* and its authentication middleware.                                      *)
(*                                                                         *)
(* A path is the sequence of its segments.  The value of a header is a     *)
(* sequence of words and blanks; a token is one word.                      *)
(***************************************************************************)
NoHeader == [present |-> FALSE, str |-> <<>>]
Header(str) == [present |-> TRUE, str |-> str]

\* a token that jwt.verify accepts (signed with JWT_SECRET, not expired), and
\* one that it rejects
GoodToken == "signed"
BadToken  == "forged"

Headers ==
  { NoHeader, Header(<<>>), Header(<<"Bearer">>),
    Header(<<"Bearer", " ", BadToken>>), Header(<<"Bearer", " ", GoodToken>>),
    Header(<<"Basic", " ", BadToken>>) }

\* str.split(' ')
RECURSIVE Split(_)
Split(str) ==
  IF \A k \in 1..Len(str) : str[k] # " " THEN <<str>>
  ELSE LET k == CHOOSE j \in 1..Len(str) :
                  str[j] = " " /\ \A m \in 1..(j - 1) : str[m] # " "
       IN  <<SubSeq(str, 1, k - 1)>> \o Split(SubSeq(str, k + 1, Len(str)))

\* token = authHeader && authHeader.split(' ')[1]: [null, str], where null
\* stands for undefined
ExtractToken(authHeader) ==
  IF ~authHeader.present THEN [null |-> TRUE, str |-> <<>>]
  ELSE IF authHeader.str = <<>> THEN [null |-> FALSE, str |-> <<>>]
  ELSE LET words == Split(authHeader.str)
       IN  IF Len(words) < 2 THEN [null |-> TRUE, str |-> <<>>]
           ELSE [null |-> FALSE, str |-> words[2]]

\* jwt.verify(token, JWT_SECRET, ...) calls back without an error
JwtVerifies(token) == token.str = <<GoodToken>>

\* authenticateToken: the status it answers, or "next"
authenticateToken(authHeader) ==
  LET token == ExtractToken(authHeader)
  IN  IF token.null THEN "401"
      ELSE IF ~JwtVerifies(token) THEN "403"
      ELSE "next"

\* the routes of the dashboard router, in the order of their registration
RouterRoutes ==
  << [method |-> "GET",  path |-> <<"monitoring">>,                        route |-> "monitoring"],
     [method |-> "POST", path |-> <<"monitoring", "light-control">>,       route |-> "light-control"],
     [method |-> "GET",  path |-> <<"alerts">>,                            route |-> "alerts"],
     [method |-> "POST", path |-> <<"alerts", "toggle-mode">>,             route |-> "toggle-mode"],
     [method |-> "POST", path |-> <<"alerts", "log-motion">>,              route |-> "log-motion"],
     [method |-> "GET",  path |-> <<"access-safety">>,                     route |-> "access-safety"],
     [method |-> "POST", path |-> <<"access-safety", "rfid-scan">>,        route |-> "rfid-scan"],
     [method |-> "POST", path |-> <<"access-safety", "fire-test">>,        route |-> "fire-test"],
     [method |-> "POST", path |-> <<"access-safety", "fire-system-toggle">>,
      route |-> "fire-system-toggle"] >>

\* the dashboard router handles a request whose url is path: the middleware
\* of router.use runs first, for every path; then the first route that
\* matches runs; with no match the router calls next
RouterHandle(method, path, authHeader) ==
  LET guard == authenticateToken(authHeader)
      hits == {k \in 1..Len(RouterRoutes) :
                 RouterRoutes[k].method = method /\ RouterRoutes[k].path = path}
  IN  IF guard # "next" THEN guard
      ELSE IF hits = {} THEN "next"
      ELSE RouterRoutes[CHOOSE k \in hits : \A m \in hits : k <= m].route

DataPrefix == <<"api", "data">>

HasPrefix(path, prefix) ==
  Len(path) >= Len(prefix) /\ SubSeq(path, 1, Len(prefix)) = prefix

\* the layers of the app that a request to /api/data reaches, in order:
\* app.get('/api/data/monitoring') hands the request to the router with its
\* url as it is; app.use('/api/data', dashboardRoutes) hands it over with the
\* prefix stripped; a request that no layer answers gets 404
AppHandle(method, path, authHeader) ==
  LET first == IF method = "GET" /\ path = DataPrefix \o <<"monitoring">>
                 THEN RouterHandle(method, path, authHeader) ELSE "next"
      second == IF HasPrefix(path, DataPrefix)
                  THEN RouterHandle(method, SubSeq(path, Len(DataPrefix) + 1, Len(path)),
                                    authHeader)
                  ELSE "next"
  IN  IF first # "next" THEN first
      ELSE IF second # "next" THEN second
      ELSE "404"

\* the requests of the model: every route of the router under /api/data, and
\* a path that is no route, with any of the headers
Requests ==
  { [method |-> r.method, path |-> DataPrefix \o r.path, authorization |-> h] :
      r \in {RouterRoutes[k] : k \in 1..Len(RouterRoutes)}
               \cup {[method |-> "GET", path |-> <<"nothing">>, route |-> "none"]},
      h \in Headers }

\* a request reaches the server
Arrive(request) ==
  /\ req.route # "request"
  /\ req' = [route |-> "request", body |-> request]
  /\ res' = Pending("request")
  /\ UNCHANGED <<smartLight, alertMode, alertHistory, accessSafety, gateTimers,
                 espPending, espLed, now, calls>>

\* res.status(status).send(...) of the middleware, or the 404 of the app
Reject(status) ==
  /\ req' = [route |-> "rejected", body |-> <<>>]
  /\ res' = [route |-> "rejected", status |-> status, body |-> <<>>]
  /\ UNCHANGED <<smartLight, alertMode, alertHistory, accessSafety, gateTimers,
                 espPending, espLed, now, calls>>

\* the handler of a route of the router runs, for some body of the request
Handle(route) ==
  \/ route = "monitoring" /\ GetMonitoring
  \/ route = "light-control" /\ \E body \in LightBodies : LightControl(body)
  \/ route = "alerts" /\ GetAlerts
  \/ route = "toggle-mode" /\ \E v \in JsValues : ToggleMode(v)
  \/ route = "log-motion" /\ calls < MaxCalls /\ \E body \in LogBodies : LogMotion(body)
  \/ route = "access-safety" /\ GetAccessSafety
  \/ route = "rfid-scan" /\ \E n \in 1..Len(names), num \in EmployeeNumbers : RfidScan(n, num)
  \/ route = "fire-test" /\ FireTest
  \/ route = "fire-system-toggle" /\ \E v \in JsValues : FireSystemToggle(v)

\* the app handles the request that arrived
Serve ==
  /\ req.route = "request"
  /\ LET outcome == AppHandle(req.body.method, req.body.path, req.body.authorization)
     IN  IF outcome = "401" THEN Reject(401)
         ELSE IF outcome = "403" THEN Reject(403)
         ELSE IF outcome = "404" THEN Reject(404)
         ELSE Handle(outcome)

(***************************************************************************)
(* The auth API (signup, signin) and the form of AuthModal.                *)
(***************************************************************************)
Emails == {"ann@office.com", "bob@office.com", "not-an-email"}

\* the second password is shorter than 6 characters
Passwords == {"secret-1", "12345"}

NoUser == "none"

\* User.findOne({ email }): the password of the first account with the email,
\* or NoUser
FindOne(users, email) ==
  LET hits == {k \in 1..Len(users) : users[k].email = email}
  IN  IF hits = {} THEN NoUser
      ELSE users[CHOOSE k \in hits : \A m \in hits : k <= m].password

NotAuthResponse == [route |-> "none", status |-> 0, message |-> "none"]

\* error === null
NoError == "null"

InitAuth ==
  [users |-> <<>>, signups |-> <<>>, isLoginView |-> TRUE, error |-> NoError,
   token |-> "null", user |-> "null", response |-> NotAuthResponse]

\* router.post('/signup'): the response, for the users the store holds;
\* failed: User.findOne, bcrypt.hash or User.create throws
SignupResponse(users, email, failed) ==
  IF failed
    THEN [route |-> "signup", status |-> 500, message |-> "Internal server error"]
  ELSE IF FindOne(users, email) # NoUser
    THEN [route |-> "signup", status |-> 409, message |-> "This email is already in use."]
  ELSE [route |-> "signup", status |-> 201, message |-> "User created successfully"]

\* router.post('/signin')
SigninResponse(users, email, password, failed) ==
  IF failed
    THEN [route |-> "signin", status |-> 500, message |-> "Internal server error"]
  ELSE IF FindOne(users, email) = NoUser
    THEN [route |-> "signin", status |-> 401, message |-> "Invalid email or password."]
  ELSE IF FindOne(users, email) # password
    THEN [route |-> "signin", status |-> 401, message |-> "Invalid email or password."]
  ELSE [route |-> "signin", status |-> 200, message |-> "Login successful"]

\* the request gets no response
NetworkError(route) == [route |-> route, status |-> 0, message |-> "Network Error"]

\* api.post resolves for a 2xx status and throws otherwise
Resolves(response) == response.status >= 200 /\ response.status < 300

\* the code of the error that api.post throws
AxiosErrorCode(response) ==
  IF response.status = 0 THEN "ERR_NETWORK"
  ELSE IF response.status >= 500 THEN "ERR_BAD_RESPONSE"
  ELSE "ERR_BAD_REQUEST"

\* the catch of handleSubmit: the message for the code of the error
FormMessage(code) ==
  IF code = "auth/invalid-email" THEN "Invalid email format."
  ELSE IF code = "auth/wrong-password" \/ code = "auth/user-not-found"
    THEN "Invalid email or password."
  ELSE IF code = "auth/email-already-in-use" THEN "Email already in use."
  ELSE IF code = "auth/weak-password" THEN "Password should be at least 6 characters."
  ELSE "Authentication failed. Please try again."

\* toggleView
ToggleView ==
  /\ auth' = [auth EXCEPT !.isLoginView = ~auth.isLoginView, !.error = NoError,
                          !.response = NotAuthResponse]
  /\ UNCHANGED <<backendVars, pure, activeView, ticks, sim, toggles, alertsVars, accessVars>>

\* handleSubmit, with the request it sends through login or signup and the
\* handler of the auth API that answers it; outcome: "answer", "failed" (the
\* handler's catch) or "network" (no response)
handleSubmit(email, password, outcome) ==
  LET route == IF auth.isLoginView THEN "signin" ELSE "signup"
      response ==
        IF outcome = "network" THEN NetworkError(route)
        ELSE IF auth.isLoginView
          THEN SigninResponse(auth.users, email, password, outcome = "failed")
          ELSE SignupResponse(auth.users, email, outcome = "failed")
  IN  /\ auth' = [users |-> IF response.status = 201
                              THEN Append(auth.users, [email |-> email, password |-> password])
                              ELSE auth.users,
                  signups |-> auth.signups,
                  isLoginView |-> auth.isLoginView,
                  error |-> IF Resolves(response) THEN NoError
                            ELSE FormMessage(AxiosErrorCode(response)),
                  token |-> IF Resolves(response) THEN email ELSE auth.token,
                  user |-> IF Resolves(response) THEN email ELSE auth.user,
                  response |-> response]
      /\ UNCHANGED <<backendVars, pure, activeView, ticks, sim, toggles, alertsVars, accessVars>>

\* the request interceptor of the API client: the Authorization header of a
\* request, for the token in localStorage
RequestInterceptor(token) ==
  IF token = "null" THEN NoHeader ELSE Header(<<"Bearer", " ", token>>)

\* what the protected route renders
ProtectedRoute(user) == IF user = "null" THEN "login" ELSE "children"

\* router.post('/signout')
SignoutResponse == [route |-> "signout", status |-> 200, message |-> "Signout complete."]

\* logout of a signed-in user; outcome: "answer" or "network" (api.post
\* rejects, and so does logout: the lines after the await do not run)
logout(outcome) ==
  LET response == IF outcome = "network" THEN NetworkError("signout") ELSE SignoutResponse
  IN  /\ auth.user # "null"
      /\ auth' = [auth EXCEPT
                    !.token = IF Resolves(response) THEN "null" ELSE @,
                    !.user = IF Resolves(response) THEN "null" ELSE @,
                    !.response = response]
      /\ UNCHANGED <<backendVars, pure, activeView, ticks, sim, toggles, alertsVars, accessVars>>

\* router.post('/signup') up to the answer of User.findOne: the handler is
\* suspended with what the query found
SignupFind(email, password) ==
  /\ Len(auth.signups) < MaxSignups
  /\ Len(auth.users) + Len(auth.signups) < MaxAccounts
  /\ auth' = [auth EXCEPT !.signups =
                Append(@, [email |-> email, password |-> password,
                           existingUser |-> FindOne(auth.users, email) # NoUser])]
  /\ UNCHANGED <<backendVars, pure, activeView, ticks, sim, toggles, alertsVars, accessVars>>

\* the i-th suspended signup goes on: 409 when its query had found a user,
\* otherwise bcrypt.hash and User.create, and 201; failed: one of them throws
SignupCreate(i, failed) ==
  /\ i \in 1..Len(auth.signups)
  /\ LET signup == auth.signups[i]
         creates == ~signup.existingUser /\ ~failed
     IN  auth' = [auth EXCEPT
                    !.signups = RemoveAt(@, i),
                    !.users = IF creates
                                THEN Append(@, [email |-> signup.email,
                                                password |-> signup.password])
                                ELSE @,
                    !.response =
                      IF signup.existingUser
                        THEN [route |-> "signup", status |-> 409,
                              message |-> "This email is already in use."]
                      ELSE IF failed
                        THEN [route |-> "signup", status |-> 500,
                              message |-> "Internal server error"]
                      ELSE [route |-> "signup", status |-> 201,
                            message |-> "User created successfully"]]
  /\ UNCHANGED <<backendVars, pure, activeView, ticks, sim, toggles, alertsVars, accessVars>>

(***************************************************************************)
(* The simulated Alerts tab: a PIR simulation on an interval timer, with   *)
(* no backend.  Its timers run when they are due: the tab does no other    *)
(* work, and time does not pass a timer that is due.                       *)
(***************************************************************************)
SIM_INTERVAL_MS == 4000
SIM_RESOLVE_MS  == 3000

SimInitHistory ==
  << [id |-> "1", type |-> "Motion Detected", status |-> "Resolved"],
     [id |-> "2", type |-> "Unauthorized Movement", status |-> "Resolved"],
     [id |-> "3", type |-> "Motion Detected", status |-> "Resolved"],
     [id |-> "4", type |-> "Motion Detected", status |-> "Resolved"],
     [id |-> "5", type |-> "Unauthorized Movement", status |-> "Resolved"] >>

\* the state after the mount at time 0: the effect has set the interval
InitSim ==
  [alertMode |-> FALSE, motionDetected |-> FALSE, alertHistory |-> SimInitHistory,
   interval |-> SIM_INTERVAL_MS, timeouts |-> <<>>]

\* the updater of the timeout leaves the history as it is
ResolveHeadNever(history, id) == history

\* the updater of the timeout: the head is resolved when it is the record
ResolveHead(history, id) ==
  IF history # <<>> /\ history[1].id = id
    THEN [history EXCEPT ![1] = [@ EXCEPT !.status = "Resolved"]]
    ELSE history

\* the switch: setAlertMode; the effect is cleaned up and runs again, which
\* clears the interval and sets a new one; timeouts are not cleared
SimToggle ==
  /\ sim' = [sim EXCEPT !.alertMode = ~sim.alertMode,
                        !.interval = now + SIM_INTERVAL_MS]
  /\ UNCHANGED <<backendVars, pure, activeView, ticks, auth, toggles, alertsVars, accessVars>>

\* the callback of the interval; motion: Math.random() > 0.9
SimTick(motion) ==
  /\ sim.interval = now
  /\ motion => now + SIM_RESOLVE_MS <= MaxSimClock * ClockStep
  /\ sim' = IF sim.alertMode /\ motion
              THEN [sim EXCEPT
                      !.motionDetected = TRUE,
                      !.alertHistory =
                         <<[id |-> ToString(now), type |-> "Motion Detected",
                            status |-> "Active"]>> \o @,
                      !.timeouts = Append(@, [due |-> now + SIM_RESOLVE_MS,
                                              id |-> ToString(now)]),
                      !.interval = now + SIM_INTERVAL_MS]
              ELSE [sim EXCEPT !.interval = now + SIM_INTERVAL_MS]
  /\ UNCHANGED <<backendVars, pure, activeView, ticks, auth, toggles, alertsVars, accessVars>>

\* the callback of the oldest timeout
SimTimeout ==
  /\ sim.timeouts # <<>>
  /\ Head(sim.timeouts).due = now
  /\ sim' = [sim EXCEPT
               !.motionDetected = FALSE,
               !.alertHistory = ResolveHead(@, Head(sim.timeouts).id),
               !.timeouts = Tail(@)]
  /\ UNCHANGED <<backendVars, pure, activeView, ticks, auth, toggles, alertsVars, accessVars>>

\* time passes, up to the next timer that is due
SimAdvance ==
  /\ now < MaxSimClock * ClockStep
  /\ sim.interval # now
  /\ IF sim.timeouts = <<>> THEN TRUE ELSE Head(sim.timeouts).due # now
  /\ now' = now + ClockStep
  /\ UNCHANGED <<smartLight, alertMode, alertHistory, accessSafety, gateTimers,
                 espPending, espLed, req, res, calls>>
  /\ UNCHANGED frontVars

(***************************************************************************)
(* The telemetry feed (ThingSpeak) as the tabs read it.                    *)
(*                                                                         *)
(* A string is a sequence of one-character strings.  A JSON field is       *)
(* [null, str]; a JavaScript number is [nan, num, scale] and stands for    *)
(* num / 10^scale.                                                         *)
(***************************************************************************)
Digits == <<"0", "1", "2", "3", "4", "5", "6", "7", "8", "9">>
IsDigit(c) == \E d \in 1..10 : Digits[d] = c
DigitValue(c) == (CHOOSE d \in 1..10 : Digits[d] = c) - 1

NaN == [nan |-> TRUE, num |-> 0, scale |-> 0]
Number(n, k) == [nan |-> FALSE, num |-> n, scale |-> k]

RECURSIVE Pow10(_)
Pow10(k) == IF k = 0 THEN 1 ELSE 10 * Pow10(k - 1)

\* the number of leading characters of str that satisfy the test
RECURSIVE SpacePrefix(_)
SpacePrefix(str) ==
  IF str # <<>> /\ Head(str) = " " THEN 1 + SpacePrefix(Tail(str)) ELSE 0

RECURSIVE DigitPrefix(_)
DigitPrefix(str) ==
  IF str # <<>> /\ IsDigit(Head(str)) THEN 1 + DigitPrefix(Tail(str)) ELSE 0

Drop(str, k) == SubSeq(str, k + 1, Len(str))

\* the value of a string of digits
RECURSIVE DigitsValue(_)
DigitsValue(str) ==
  IF str = <<>> THEN 0
  ELSE 10 * DigitsValue(SubSeq(str, 1, Len(str) - 1)) + DigitValue(str[Len(str)])

\* parseFloat: leading blanks, a sign, digits, a point and digits; what
\* follows the longest such prefix is ignored; NaN when there is no digit
ParseFloat(str) ==
  LET s0      == Drop(str, SpacePrefix(str))
      signed  == s0 # <<>> /\ Head(s0) \in {"-", "+"}
      neg     == s0 # <<>> /\ Head(s0) = "-"
      s1      == IF signed THEN Tail(s0) ELSE s0
      intLen  == DigitPrefix(s1)
      s2      == Drop(s1, intLen)
      hasDot  == s2 # <<>> /\ Head(s2) = "."
      fracLen == IF hasDot THEN DigitPrefix(Tail(s2)) ELSE 0
      mag     == DigitsValue(SubSeq(s1, 1, intLen)) * Pow10(fracLen)
                   + (IF hasDot THEN DigitsValue(SubSeq(Tail(s2), 1, fracLen)) ELSE 0)
  IN  IF intLen + fracLen = 0 THEN NaN
      ELSE Number(IF neg THEN 0 - mag ELSE mag, fracLen)

\* parseInt(str, 10): leading blanks, a sign, digits
ParseInt(str) ==
  LET s0     == Drop(str, SpacePrefix(str))
      signed == s0 # <<>> /\ Head(s0) \in {"-", "+"}
      neg    == s0 # <<>> /\ Head(s0) = "-"
      s1     == IF signed THEN Tail(s0) ELSE s0
      intLen == DigitPrefix(s1)
      mag    == DigitsValue(SubSeq(s1, 1, intLen))
  IN  IF intLen = 0 THEN NaN ELSE Number(IF neg THEN 0 - mag ELSE mag, 0)

\* x > 0 and x === n of JavaScript; a comparison with NaN is false
GreaterThanZero(x) == ~x.nan /\ x.num > 0
NumberIs(x, n) == ~x.nan /\ x.num = n * Pow10(x.scale)

\* a JSON field of a feed
JsonNull == [null |-> TRUE, str |-> <<>>]
JsonString(str) == [null |-> FALSE, str |-> str]

\* field || dflt
OrDefault(field, dflt) ==
  IF field.null \/ field.str = <<>> THEN dflt ELSE field.str

\* the decimal numeral of a number of tenths, as the device writes it
RECURSIVE NaturalString(_)
NaturalString(n) ==
  IF n < 10 THEN <<Digits[n + 1]>>
  ELSE NaturalString(n \div 10) \o <<Digits[(n % 10) + 1]>>

FieldString(tenths) ==
  LET mag == IF tenths < 0 THEN 0 - tenths ELSE tenths
  IN  (IF tenths < 0 THEN <<"-">> ELSE <<>>)
        \o NaturalString(mag \div 10)
        \o (IF mag % 10 = 0 THEN <<>> ELSE <<".">> \o NaturalString(mag % 10))

\* new Date(created_at).getTime(): NaN for a string that is no date
GetTime(created_at) ==
  IF created_at.valid THEN Number(created_at.ms, 0) ELSE NaN

\* a strict comparison in place of <=
IsRecentStrict(dataTimestamp, t, threshold) ==
  ~dataTimestamp.nan /\ (t - dataTimestamp.num) < threshold

\* isRecent = (now - dataTimestamp) <= DATA_RECENCY_THRESHOLD_MS
IsRecent(dataTimestamp, t, threshold) ==
  ~dataTimestamp.nan /\ (t - dataTimestamp.num) <= threshold

\* AlertsTab: motionDetectedFromChannel for the latest feed
MotionDetectedFromChannel(latestFeed, t) ==
  LET dataTimestamp == GetTime(latestFeed.created_at)
      isRecent      == IsRecent(dataTimestamp, t, ALERTS_DATA_RECENCY_THRESHOLD_MS)
      motionValue   == ParseFloat(OrDefault(latestFeed.field6, <<"0">>))
  IN  GreaterThanZero(motionValue) /\ isRecent

\* AccessSafetyTab: fireDetectedFromChannel for the latest feed
FireDetectedFromChannel(latestFeed, t) ==
  LET dataTimestamp == GetTime(latestFeed.created_at)
      isRecent      == IsRecent(dataTimestamp, t, ACCESS_DATA_RECENCY_THRESHOLD_MS)
      fireValue     == ParseFloat(OrDefault(latestFeed.field5, <<"0">>))
  IN  GreaterThanZero(fireValue) /\ isRecent

(***************************************************************************)
(* What a fetch of the latest feed can answer.                             *)
(***************************************************************************)
PollFields == {JsonNull, JsonString(<<"0">>), JsonString(<<"1">>)}

PollAges(threshold) == {0, threshold, threshold + 1}

NoFeed(kind) == [kind |-> kind, age |-> 0, field |-> JsonNull]

\* the fetch throws, the status is not 2xx, the body is no JSON, or feeds is
\* missing or empty
FetchFailures ==
  {NoFeed("network-error"), NoFeed("http-error"), NoFeed("bad-json"), NoFeed("no-feeds")}

AlertsTelemetry ==
  FetchFailures
    \cup [kind : {"feed"}, age : PollAges(ALERTS_DATA_RECENCY_THRESHOLD_MS), field : PollFields]

\* the latest sample of a channel that a tick did not read: older than the
\* threshold or not, and whether the tab would derive a true flag from it
ChannelStates ==
  {c \in [stale : BOOLEAN, active : BOOLEAN] : ~(c.stale /\ c.active)}

\* the latest sample of the channel is older than the threshold
Stale(response, threshold) == response.kind = "feed" /\ response.age > threshold

(***************************************************************************)
(* AlertsTab                                                               *)
(***************************************************************************)
InitAlertsData == [alertMode |-> FALSE, motionDetected |-> FALSE, alertHistory |-> <<>>]

NoTick ==
  [n |-> 0, localOk |-> FALSE, localData |-> InitAlertsData,
   telemetry |-> NoFeed("none"), stale |-> FALSE, active |-> FALSE,
   prev |-> InitAlertsData, view |-> InitAlertsData, posted |-> FALSE]

NewRun(history) == [clean |-> TRUE, eff |-> <<>>, start |-> history]
BrokenRun == [clean |-> FALSE, eff |-> <<>>, start |-> <<>>]

InitAlertsTab ==
  /\ alertsData = InitAlertsData
  /\ alertsTicks = <<>>
  /\ logPosts = 0
  /\ lastTick = NoTick
  /\ run = NewRun(InitAlertHistory)

\* the value of motionDetectedFromChannel when the telemetry fetch has ended
MotionOfResponse(response, t) ==
  IF response.kind = "feed"
    THEN MotionDetectedFromChannel(
           [created_at |-> [valid |-> TRUE, ms |-> t - response.age],
            field6 |-> response.field], t)
    ELSE FALSE

\* the condition of the setData updater under which it posts log-motion
ShouldLogAlert(prev, localData, motion) ==
  /\ motion /\ localData.alertMode
  /\ \/ ~prev.motionDetected
     \/ prev.alertHistory = <<>>
     \/ prev.alertHistory[1].type # "Unauthorized Movement"

\* the motion flag of the backend's answer is shown, not the channel's
NextAlertsDataLocalMotion(localData, motion) ==
  [alertMode |-> localData.alertMode, alertHistory |-> localData.alertHistory,
   motionDetected |-> localData.motionDetected]

\* the value the setData updater returns
NextAlertsData(localData, motion) ==
  [alertMode |-> localData.alertMode, alertHistory |-> localData.alertHistory,
   motionDetected |-> motion]

\* the interval calls fetchData only after a tick without a failure
AlertsTickStartAfterSuccess(limit) ==
  /\ activeView = "alerts"
  /\ lastTick.n = 0 \/ (lastTick.localOk /\ lastTick.telemetry.kind = "feed")
  /\ ticks < limit
  /\ Len(alertsTicks) < MaxInFlight
  /\ ticks' = ticks + 1
  /\ now' = IF ticks = 0 THEN now ELSE now + ALERTS_REFRESH_RATE_MS
  /\ alertsTicks' = Append(alertsTicks, [pc |-> "local", localData |-> InitAlertsData])
  /\ run' = IF alertsTicks # <<>> \/ logPosts > 0 THEN BrokenRun
            ELSE IF ~run.clean THEN NewRun(alertHistory)
            ELSE run
  /\ UNCHANGED <<smartLight, alertMode, alertHistory, accessSafety, gateTimers,
                 espPending, espLed, req, res, calls>>
  /\ UNCHANGED <<alertsData, logPosts, lastTick>>

\* setInterval calls fetchData (the first call is made on mount)
AlertsTickStart(limit) ==
  /\ activeView = "alerts"
  /\ ticks < limit
  /\ Len(alertsTicks) < MaxInFlight
  /\ ticks' = ticks + 1
  /\ now' = IF ticks = 0 THEN now ELSE now + ALERTS_REFRESH_RATE_MS
  /\ alertsTicks' = Append(alertsTicks, [pc |-> "local", localData |-> InitAlertsData])
  /\ run' = IF alertsTicks # <<>> \/ logPosts > 0 THEN BrokenRun
            ELSE IF ~run.clean THEN NewRun(alertHistory)
            ELSE run
  /\ UNCHANGED <<smartLight, alertMode, alertHistory, accessSafety, gateTimers,
                 espPending, espLed, req, res, calls>>
  /\ UNCHANGED <<alertsData, logPosts, lastTick>>

\* api.get('/data/alerts') of the i-th call is answered
AlertsLocalOk(i) ==
  /\ i \in 1..Len(alertsTicks)
  /\ alertsTicks[i].pc = "local"
  /\ GetAlerts
  /\ alertsTicks' = [alertsTicks EXCEPT ![i] = [pc |-> "telemetry", localData |-> AlertsResponse]]
  /\ UNCHANGED <<alertsData, logPosts, lastTick, run>>

\* the catch publishes the initial view model instead of returning
AlertsLocalFailResets(i, channel) ==
  /\ i \in 1..Len(alertsTicks)
  /\ alertsTicks[i].pc = "local"
  /\ alertsTicks' = RemoveAt(alertsTicks, i)
  /\ alertsData' = InitAlertsData
  /\ lastTick' = [n |-> lastTick.n + 1, localOk |-> FALSE, localData |-> InitAlertsData,
                  telemetry |-> NoFeed("none"), stale |-> channel.stale,
                  active |-> channel.active, prev |-> alertsData,
                  view |-> InitAlertsData, posted |-> FALSE]
  /\ run' = BrokenRun
  /\ UNCHANGED backendVars
  /\ UNCHANGED logPosts

\* api.get('/data/alerts') of the i-th call fails: fetchData returns and the
\* channel is not asked
AlertsLocalFail(i, channel) ==
  /\ i \in 1..Len(alertsTicks)
  /\ alertsTicks[i].pc = "local"
  /\ alertsTicks' = RemoveAt(alertsTicks, i)
  /\ lastTick' = [n |-> lastTick.n + 1, localOk |-> FALSE, localData |-> InitAlertsData,
                  telemetry |-> NoFeed("none"), stale |-> channel.stale,
                  active |-> channel.active, prev |-> alertsData,
                  view |-> alertsData, posted |-> FALSE]
  /\ run' = BrokenRun
  /\ UNCHANGED backendVars
  /\ UNCHANGED <<alertsData, logPosts>>

\* the telemetry fetch of the i-th call ends with response; the setData
\* updater runs
AlertsTelemetryDone(i, response) ==
  /\ activeView = "alerts"
  /\ i \in 1..Len(alertsTicks)
  /\ alertsTicks[i].pc = "telemetry"
  /\ LET localData == alertsTicks[i].localData
         motion    == MotionOfResponse(response, now)
         posts     == ShouldLogAlert(alertsData, localData, motion)
     IN  /\ alertsData' = NextAlertsData(localData, motion)
         /\ logPosts' = IF posts THEN logPosts + 1 ELSE logPosts
         /\ lastTick' = [n |-> lastTick.n + 1, localOk |-> TRUE, localData |-> localData,
                         telemetry |-> response,
                         stale |-> Stale(response, ALERTS_DATA_RECENCY_THRESHOLD_MS),
                         active |-> motion, prev |-> alertsData,
                         view |-> NextAlertsData(localData, motion), posted |-> posts]
         /\ run' = IF run.clean /\ response.kind = "feed" /\ localData.alertMode
                     THEN [run EXCEPT !.eff = Append(run.eff, motion)]
                     ELSE BrokenRun
  /\ alertsTicks' = RemoveAt(alertsTicks, i)
  /\ UNCHANGED backendVars

\* another tab is selected: AlertsTab unmounts and the cleanup of its effect
\* clears the interval; the calls of fetchData in flight go on
AlertsTeardown ==
  /\ activeView = "alerts"
  /\ activeView' = "monitoring"
  /\ UNCHANGED backendVars
  /\ UNCHANGED <<alertsVars, accessVars, ticks, auth, sim, toggles, pure>>

\* the telemetry fetch of the i-th call ends after the tab was unmounted:
\* setData is called on the unmounted component, which is never rendered
\* again, so data stays the state of its last render.  eager: setData
\* evaluates the updater at once, which it does when the component has no
\* update pending; otherwise the updater waits for a render and never runs
AlertsTelemetryDoneUnmounted(i, response, eager) ==
  /\ activeView # "alerts"
  /\ i \in 1..Len(alertsTicks)
  /\ alertsTicks[i].pc = "telemetry"
  /\ LET localData == alertsTicks[i].localData
         motion    == MotionOfResponse(response, now)
         posts     == eager /\ ShouldLogAlert(alertsData, localData, motion)
     IN  /\ logPosts' = IF posts THEN logPosts + 1 ELSE logPosts
         /\ lastTick' = [n |-> lastTick.n + 1, localOk |-> TRUE, localData |-> localData,
                         telemetry |-> response,
                         stale |-> Stale(response, ALERTS_DATA_RECENCY_THRESHOLD_MS),
                         active |-> motion, prev |-> alertsData,
                         view |-> alertsData, posted |-> posts]
  /\ run' = BrokenRun
  /\ alertsTicks' = RemoveAt(alertsTicks, i)
  /\ UNCHANGED backendVars
  /\ UNCHANGED alertsData

\* a log-motion request of the tab reaches the backend
LogPostArrives ==
  /\ logPosts > 0
  /\ logPosts' = logPosts - 1
  /\ LogMotion([type |-> "Unauthorized Movement", status |-> "Active"])
  /\ UNCHANGED <<alertsData, alertsTicks, lastTick, run>>

\* a log-motion request of the tab fails; the error is logged to the console
LogPostFails ==
  /\ logPosts > 0
  /\ logPosts' = logPosts - 1
  /\ run' = BrokenRun
  /\ UNCHANGED backendVars
  /\ UNCHANGED <<alertsData, alertsTicks, lastTick>>

(***************************************************************************)
(* AccessSafetyTab                                                         *)
(*                                                                         *)
(* An RFID tag is one token: a string of a single element.                 *)
(***************************************************************************)
KnownUids == {"2380560134", "1225422926010496", "1178866149904768", "1205147868164736"}

UID_NAME_MAP ==
  [uid \in KnownUids |->
     CASE uid = "2380560134"       -> "Ankita Meena"
       [] uid = "1225422926010496" -> "Anshika"
       [] uid = "1178866149904768" -> "Anshika Garg"
       [] uid = "1205147868164736" -> "Anchal Gupta"]

\* feed[field] || null
OrNull(field) == IF field.null \/ field.str = <<>> THEN JsonNull ELSE field

resolveName(employeeId) ==
  IF employeeId.null THEN "Unknown"
  ELSE IF employeeId.str[1] \in KnownUids THEN UID_NAME_MAP[employeeId.str[1]]
  ELSE "Unknown"

countUniqueAccess(records) ==
  Cardinality({records[i].employeeId : i \in {j \in 1..Len(records) : records[j].status = "Verified"}})

formatTime(date) == IF date.nan THEN "N/A" ELSE FormatTime(date.num)

InitAccessData ==
  [gateOpen |-> FALSE, fireSystemOn |-> TRUE, fireDetected |-> FALSE, attendance |-> <<>>,
   latestRfidTag |-> JsonNull, accessStatus |-> "Unknown", uniqueAccessCount |-> 0,
   latestRfidName |-> "null"]

\* the entries the history request can return
KnownTag   == JsonString(<<"2380560134">>)
UnknownTag == JsonString(<<"77">>)

Entry(id, tag, status) ==
  [entry_id |-> id, created_at |-> [valid |-> TRUE, ms |-> 0], field7 |-> tag, field8 |-> status]

HistoryFeeds ==
  { <<>>,
    <<Entry(1, KnownTag, JsonString(<<"1">>))>>,
    <<Entry(1, KnownTag, JsonString(<<"1">>)), Entry(2, UnknownTag, JsonString(<<"0">>)),
      Entry(3, JsonNull, JsonNull)>>,
    <<Entry(2, KnownTag, JsonString(<<"0">>)), Entry(1, KnownTag, JsonString(<<"1">>)),
      Entry(2, KnownTag, JsonString(<<"1">>))>> }

\* no entry, or entries out of order with one id twice
HistoryCases == {feeds \in HistoryFeeds : Len(feeds) = 0 \/ feeds[1].entry_id = 2}

\* what the request for the latest feed can answer: fetchData parses the body
\* whether the status is 2xx (ok) or not
AccessLatest ==
  { [kind |-> k, ok |-> FALSE, age |-> 0, field5 |-> JsonNull, field7 |-> JsonNull,
     field8 |-> JsonNull] : k \in {"network-error", "bad-json", "no-feeds"} }
    \cup [kind : {"feed"}, ok : {TRUE}, age : PollAges(ACCESS_DATA_RECENCY_THRESHOLD_MS),
          field5 : {JsonNull, JsonString(<<"1">>)},
          field7 : {JsonNull, KnownTag},
          field8 : {JsonNull, JsonString(<<"0">>), JsonString(<<"1">>)}]
    \cup [kind : {"feed"}, ok : {FALSE}, age : {ACCESS_DATA_RECENCY_THRESHOLD_MS},
          field5 : {JsonNull, JsonString(<<"1">>)},
          field7 : {KnownTag}, field8 : {JsonString(<<"1">>)}]

\* how the latest-feed request ended: a response that is not 2xx is a failure
\* of the request, whatever its body holds
LatestKind(latest) ==
  IF latest.kind = "feed" /\ ~latest.ok THEN "http-error" ELSE latest.kind

\* the answers with a sample at or just over the threshold; an access status
\* without a tag is once "1"
AccessLatestCases ==
  {r \in AccessLatest :
     r.kind = "feed" => /\ r.age # 0
                        /\ (r.field7.null => r.field8 # JsonString(<<"0">>))}

\* is the entry a valid access scan
IsScan(feed) ==
  LET rfidTag == OrNull(feed.field7)
      accessStatusValue == ParseInt(OrDefault(feed.field8, <<"9">>))
  IN  ~rfidTag.null /\ (NumberIs(accessStatusValue, 1) \/ NumberIs(accessStatusValue, 0))

AttendanceRecord(feed) ==
  [id |-> feed.entry_id, employeeId |-> feed.field7.str[1],
   name |-> resolveName(OrNull(feed.field7)),
   time |-> formatTime(GetTime(feed.created_at)),
   status |-> IF NumberIs(ParseInt(OrDefault(feed.field8, <<"9">>)), 1)
                THEN "Verified" ELSE "Declined"]

\* the loop over the feeds: newAttendanceRecords
RECURSIVE NewAttendanceRecords(_)
NewAttendanceRecords(feeds) ==
  IF feeds = <<>> THEN <<>>
  ELSE (IF IsScan(Head(feeds)) THEN <<AttendanceRecord(Head(feeds))>> ELSE <<>>)
         \o NewAttendanceRecords(Tail(feeds))

\* Array.from(new Map(records.map(item => [item.id, item])).values()): a key
\* keeps the place of its first record and the value of its last
UniqueById(records) ==
  LET firsts == SelectSeq([i \in 1..Len(records) |-> i],
                  LAMBDA i : \A j \in 1..(i - 1) : records[j].id # records[i].id)
      lastOf(id) == CHOOSE j \in 1..Len(records) :
                      /\ records[j].id = id
                      /\ \A k \in (j + 1)..Len(records) : records[k].id # id
  IN  [n \in 1..Len(firsts) |-> records[lastOf(records[firsts[n]].id)]]

\* sort((a, b) => parseInt(b.id) - parseInt(a.id)) of records of distinct ids
SortByIdDescending(records) ==
  LET rank(i) == 1 + Cardinality({j \in 1..Len(records) : records[j].id > records[i].id})
  IN  [n \in 1..Len(records) |-> records[CHOOSE i \in 1..Len(records) : rank(i) = n]]

\* the status block of fetchData for the latest feed
LatestStatus(latestFeed, t) ==
  LET dataTimestamp == GetTime(latestFeed.created_at)
      isRecent      == IsRecent(dataTimestamp, t, ACCESS_DATA_RECENCY_THRESHOLD_MS)
      rfidTagValue  == OrNull(latestFeed.field7)
      accessStatusValue == ParseInt(OrDefault(latestFeed.field8, <<"9">>))
      tag == IF isRecent /\ ~rfidTagValue.null THEN rfidTagValue ELSE JsonNull
  IN  [fireDetected |-> FireDetectedFromChannel(latestFeed, t),
       latestRfidTag |-> tag,
       accessStatus |->
         IF isRecent /\ ~rfidTagValue.null
           THEN IF NumberIs(accessStatusValue, 1) THEN "Accepted"
                ELSE IF NumberIs(accessStatusValue, 0) THEN "Declined"
                ELSE "Unknown"
           ELSE "Unknown",
       latestRfidName |-> resolveName(tag)]

\* the values the variables of fetchData hold when no latest feed was read
NoStatus ==
  [fireDetected |-> FALSE, latestRfidTag |-> JsonNull, accessStatus |-> "Unknown",
   latestRfidName |-> "null"]

\* the value the setData updater returns
NextAccessData(localData, records, status) ==
  LET uniqueRecords == SortByIdDescending(UniqueById(records))
  IN  [gateOpen |-> localData.gateOpen, fireSystemOn |-> localData.fireSystemOn,
       fireDetected |-> status.fireDetected, attendance |-> uniqueRecords,
       latestRfidTag |-> status.latestRfidTag, accessStatus |-> status.accessStatus,
       uniqueAccessCount |-> countUniqueAccess(uniqueRecords),
       latestRfidName |-> status.latestRfidName]

\* the status fetchData derives from the answer of the latest-feed request
StatusOfResponse(latest, t) ==
  IF latest.kind = "feed"
    THEN LatestStatus([created_at |-> [valid |-> TRUE, ms |-> t - latest.age],
                       field5 |-> latest.field5, field7 |-> latest.field7,
                       field8 |-> latest.field8], t)
    ELSE NoStatus

NoLocalAccess == [gateOpen |-> FALSE, fireSystemOn |-> FALSE]

NoAccessTick ==
  [n |-> 0, localOk |-> FALSE, localData |-> NoLocalAccess, telemetry |-> "none",
   stale |-> FALSE, active |-> FALSE, view |-> InitAccessData]

InitAccessTab ==
  /\ accessData = InitAccessData
  /\ accessTicks = <<>>
  /\ lastAccessTick = NoAccessTick

\* setInterval calls fetchData (the first call is made on mount)
AccessTickStart(limit) ==
  /\ activeView = "access-safety"
  /\ ticks < limit
  /\ Len(accessTicks) < MaxInFlight
  /\ ticks' = ticks + 1
  /\ now' = IF ticks = 0 THEN now ELSE now + ACCESS_REFRESH_RATE_MS
  /\ accessTicks' = Append(accessTicks,
       [pc |-> "local", localData |-> NoLocalAccess, records |-> <<>>])
  /\ UNCHANGED <<smartLight, alertMode, alertHistory, accessSafety, gateTimers,
                 espPending, espLed, req, res, calls>>
  /\ UNCHANGED <<accessData, lastAccessTick>>

\* api.get('/data/access-safety') of the i-th call is answered
AccessLocalOk(i) ==
  /\ i \in 1..Len(accessTicks)
  /\ accessTicks[i].pc = "local"
  /\ GetAccessSafety
  /\ accessTicks' = [accessTicks EXCEPT ![i] =
       [pc |-> "history",
        localData |-> [gateOpen |-> accessSafety.gateOpen,
                       fireSystemOn |-> accessSafety.fireSystemOn],
        records |-> <<>>]]
  /\ UNCHANGED <<accessData, lastAccessTick>>

\* api.get('/data/access-safety') of the i-th call fails: fetchData returns
\* and the channel is not asked
AccessLocalFail(i, channel) ==
  /\ i \in 1..Len(accessTicks)
  /\ accessTicks[i].pc = "local"
  /\ accessTicks' = RemoveAt(accessTicks, i)
  /\ lastAccessTick' = [n |-> lastAccessTick.n + 1, localOk |-> FALSE,
                        localData |-> NoLocalAccess, telemetry |-> "none",
                        stale |-> channel.stale, active |-> channel.active,
                        view |-> accessData]
  /\ UNCHANGED backendVars
  /\ UNCHANGED accessData

\* the i-th call ends, its telemetry requests having ended with kind: the
\* setData updater runs
AccessTickEnd(i, kind, records, status, channel) ==
  LET view == NextAccessData(accessTicks[i].localData, records, status) IN
  /\ accessData' = view
  /\ lastAccessTick' = [n |-> lastAccessTick.n + 1, localOk |-> TRUE,
                        localData |-> accessTicks[i].localData, telemetry |-> kind,
                        stale |-> channel.stale, active |-> channel.active,
                        view |-> view]
  /\ accessTicks' = RemoveAt(accessTicks, i)
  /\ UNCHANGED backendVars

\* the history request of the i-th call is answered with feeds
AccessHistoryOk(i, feeds) ==
  /\ i \in 1..Len(accessTicks)
  /\ accessTicks[i].pc = "history"
  /\ accessTicks' = [accessTicks EXCEPT ![i].pc = "latest",
                                        ![i].records = NewAttendanceRecords(feeds)]
  /\ UNCHANGED backendVars
  /\ UNCHANGED <<accessData, lastAccessTick>>

\* the history request of the i-th call fails: the latest feed is not
\* requested
AccessHistoryFail(i, channel) ==
  /\ i \in 1..Len(accessTicks)
  /\ accessTicks[i].pc = "history"
  /\ AccessTickEnd(i, "history-error", <<>>, NoStatus, channel)

\* the latest-feed request of the i-th call ends with latest
AccessLatestDone(i, latest) ==
  /\ i \in 1..Len(accessTicks)
  /\ accessTicks[i].pc = "latest"
  /\ AccessTickEnd(i, LatestKind(latest), accessTicks[i].records,
                   StatusOfResponse(latest, now),
                   [stale  |-> Stale(latest, ACCESS_DATA_RECENCY_THRESHOLD_MS),
                    active |-> StatusOfResponse(latest, now).fireDetected])

(***************************************************************************)
(* The derivation alone: a sample is drawn, and the tab derives its flag.  *)
(***************************************************************************)
\* raw values of a field, in tenths
RawFieldValues == {-10, 0, 5, 10, 25}

\* ages of a sample, around the two thresholds
SampleAges ==
  {-1000, 0,
   ALERTS_DATA_RECENCY_THRESHOLD_MS - 1, ALERTS_DATA_RECENCY_THRESHOLD_MS,
   ALERTS_DATA_RECENCY_THRESHOLD_MS + 1,
   ACCESS_DATA_RECENCY_THRESHOLD_MS - 1, ACCESS_DATA_RECENCY_THRESHOLD_MS,
   ACCESS_DATA_RECENCY_THRESHOLD_MS + 1}

NoSample ==
  [tab |-> "none", hasValue |-> FALSE, raw |-> 0, age |-> 0, dated |-> TRUE, out |-> "none"]

PureSamples ==
  [tab : {"alerts", "access-safety"}, hasValue : {TRUE}, raw : RawFieldValues,
   age : SampleAges, dated : BOOLEAN, out : {"none"}]
  \cup
  [tab : {"alerts", "access-safety"}, hasValue : {FALSE}, raw : {0},
   age : SampleAges, dated : BOOLEAN, out : {"none"}]

\* the feed entry that carries the sample, read at time t
FeedOfSample(p, t) ==
  LET field == IF p.hasValue THEN JsonString(FieldString(p.raw)) ELSE JsonNull
  IN  [created_at |-> [valid |-> p.dated, ms |-> t - p.age],
       field5 |-> field, field6 |-> field]

InitTabs ==
  /\ activeView = "monitoring"
  /\ ticks = 0
  /\ auth = InitAuth
  /\ sim = InitSim
  /\ toggles = <<>>
  /\ InitAlertsTab
  /\ InitAccessTab

InitPure ==
  /\ InitBackend
  /\ InitTabs
  /\ pure \in PureSamples

Flag(b) == IF b THEN "true" ELSE "false"

DeriveMotion ==
  /\ pure.tab = "alerts" /\ pure.out = "none"
  /\ pure' = [pure EXCEPT !.out = Flag(MotionDetectedFromChannel(FeedOfSample(pure, now), now))]
  /\ UNCHANGED <<backendVars, tabVars>>

DeriveFire ==
  /\ pure.tab = "access-safety" /\ pure.out = "none"
  /\ pure' = [pure EXCEPT !.out = Flag(FireDetectedFromChannel(FeedOfSample(pure, now), now))]
  /\ UNCHANGED <<backendVars, tabVars>>

NextPure == DeriveMotion \/ DeriveFire

SpecPure == InitPure /\ [][NextPure]_vars

(***************************************************************************)
(* Specification of the smart light.                                       *)
(***************************************************************************)
InitStore == InitBackend /\ InitTabs /\ pure = NoSample

NextLight ==
  \/ \E body \in LightBodies : LightControl(body) /\ UNCHANGED frontVars
  \/ \E i \in 1..MaxEsp, accepted \in BOOLEAN : LightControlRespond(i, accepted) /\ UNCHANGED frontVars
  \/ GetMonitoring /\ UNCHANGED frontVars

SpecLight == InitStore /\ [][NextLight]_vars

(***************************************************************************)
(* Specification of the gate: scans, their auto-close timers, the fire     *)
(* system switch and the clock.                                            *)
(***************************************************************************)
NextGate ==
  \/ \E n \in 1..Len(names), num \in EmployeeNumbers :
       RfidScan(n, num) /\ UNCHANGED frontVars
  \/ GateTimerFire /\ UNCHANGED frontVars
  \/ FireTest /\ UNCHANGED frontVars
  \/ \E v \in JsValues : FireSystemToggle(v) /\ UNCHANGED frontVars
  \/ GetAccessSafety /\ UNCHANGED frontVars
  \/ Advance /\ UNCHANGED frontVars

SpecGate == InitStore /\ [][NextGate]_vars

\* the event loop runs a due timer callback, and time passes
FairSpecGate ==
  /\ SpecGate
  /\ WF_vars(GateTimerFire /\ UNCHANGED frontVars)
  /\ WF_vars(Advance /\ UNCHANGED frontVars)

(***************************************************************************)
(* Specification of the poll loops: one tab is open and polls, while the   *)
(* switch that the tab shows (alert mode, fire system) is turned.          *)
(***************************************************************************)
InitPoll ==
  /\ InitBackend
  /\ pure = NoSample
  /\ auth = InitAuth
  /\ sim = InitSim
  /\ toggles = <<>>
  /\ activeView \in {"alerts", "access-safety"}
  /\ ticks = 0
  /\ InitAlertsTab
  /\ InitAccessTab

NextPoll ==
  \/ AlertsTickStart(MaxTicks) /\ UNCHANGED <<pure, auth, sim, toggles, activeView, accessVars>>
  \/ \E i \in 1..MaxInFlight :
       AlertsLocalOk(i) /\ UNCHANGED <<pure, auth, sim, toggles, activeView, ticks, accessVars>>
  \/ \E i \in 1..MaxInFlight, channel \in ChannelStates :
       AlertsLocalFail(i, channel) /\ UNCHANGED <<pure, auth, sim, toggles, activeView, ticks, accessVars>>
  \/ \E i \in 1..MaxInFlight, response \in AlertsTelemetry :
       AlertsTelemetryDone(i, response) /\ UNCHANGED <<pure, auth, sim, toggles, activeView, ticks, accessVars>>
  \/ LogPostArrives /\ UNCHANGED <<pure, auth, sim, toggles, activeView, ticks, accessVars>>
  \/ LogPostFails /\ UNCHANGED <<pure, auth, sim, toggles, activeView, ticks, accessVars>>
  \/ AccessTickStart(MaxTicks) /\ UNCHANGED <<pure, auth, sim, toggles, activeView, alertsVars>>
  \/ \E i \in 1..MaxInFlight :
       AccessLocalOk(i) /\ UNCHANGED <<pure, auth, sim, toggles, activeView, ticks, alertsVars>>
  \/ \E i \in 1..MaxInFlight, channel \in ChannelStates :
       AccessLocalFail(i, channel) /\ UNCHANGED <<pure, auth, sim, toggles, activeView, ticks, alertsVars>>
  \/ \E i \in 1..MaxInFlight, feeds \in HistoryFeeds :
       AccessHistoryOk(i, feeds) /\ UNCHANGED <<pure, auth, sim, toggles, activeView, ticks, alertsVars>>
  \/ \E i \in 1..MaxInFlight, channel \in ChannelStates :
       AccessHistoryFail(i, channel) /\ UNCHANGED <<pure, auth, sim, toggles, activeView, ticks, alertsVars>>
  \/ \E i \in 1..MaxInFlight, latest \in AccessLatest :
       AccessLatestDone(i, latest) /\ UNCHANGED <<pure, auth, sim, toggles, activeView, ticks, alertsVars>>
  \/ \E b \in BOOLEAN :
       activeView = "alerts" /\ ToggleMode(JsBool(b)) /\ UNCHANGED frontVars
  \/ \E b \in BOOLEAN :
       activeView = "access-safety" /\ FireSystemToggle(JsBool(b)) /\ UNCHANGED frontVars

SpecPoll == InitPoll /\ [][NextPoll]_vars

(***************************************************************************)
(* Specification of a run of the Alerts poll loop: up to MaxRunTicks ticks *)
(* of the open Alerts tab.                                                 *)
(***************************************************************************)
InitAlertsRun ==
  /\ InitBackend
  /\ pure = NoSample
  /\ auth = InitAuth
  /\ sim = InitSim
  /\ toggles = <<>>
  /\ activeView = "alerts"
  /\ ticks = 0
  /\ InitAlertsTab
  /\ InitAccessTab

NextAlertsRun ==
  \/ AlertsTickStart(MaxRunTicks) /\ UNCHANGED <<pure, auth, sim, toggles, activeView, accessVars>>
  \/ \E i \in 1..MaxInFlight :
       AlertsLocalOk(i) /\ UNCHANGED <<pure, auth, sim, toggles, activeView, ticks, accessVars>>
  \/ \E i \in 1..MaxInFlight, channel \in ChannelStates :
       AlertsLocalFail(i, channel) /\ UNCHANGED <<pure, auth, sim, toggles, activeView, ticks, accessVars>>
  \/ \E i \in 1..MaxInFlight, response \in AlertsTelemetry :
       AlertsTelemetryDone(i, response) /\ UNCHANGED <<pure, auth, sim, toggles, activeView, ticks, accessVars>>
  \/ LogPostArrives /\ UNCHANGED <<pure, auth, sim, toggles, activeView, ticks, accessVars>>
  \/ LogPostFails /\ UNCHANGED <<pure, auth, sim, toggles, activeView, ticks, accessVars>>
  \/ \E b \in BOOLEAN : ToggleMode(JsBool(b)) /\ UNCHANGED frontVars

SpecAlertsRun == InitAlertsRun /\ [][NextAlertsRun]_vars

(***************************************************************************)
(* The alert mode switch of the Alerts tab.                                *)
(***************************************************************************)
\* handleAlertModeToggle up to its await: the switch hands over the opposite
\* of what it shows; the view is changed before the request is answered
handleAlertModeToggle ==
  /\ activeView = "alerts"
  /\ Len(toggles) < MaxPending
  /\ toggles' = Append(toggles, [checked |-> ~alertsData.alertMode])
  /\ alertsData' = [alertsData EXCEPT !.alertMode = ~alertsData.alertMode]
  /\ UNCHANGED <<backendVars, pure, activeView, ticks, auth, sim, accessVars>>
  /\ UNCHANGED <<alertsTicks, logPosts, lastTick, run>>

\* the i-th pending request reaches the backend and is answered: the await
\* returns and the handler ends
AlertModeToggleOk(i) ==
  /\ i \in 1..Len(toggles)
  /\ ToggleMode(JsBool(toggles[i].checked))
  /\ toggles' = RemoveAt(toggles, i)
  /\ UNCHANGED <<pure, activeView, ticks, auth, sim, alertsVars, accessVars>>

\* the i-th pending request fails before it reaches the backend: the catch
\* sets the view to the opposite of what the handler was called with
AlertModeToggleFails(i) ==
  /\ i \in 1..Len(toggles)
  /\ toggles' = RemoveAt(toggles, i)
  /\ alertsData' = [alertsData EXCEPT !.alertMode = ~toggles[i].checked]
  /\ UNCHANGED <<backendVars, pure, activeView, ticks, auth, sim, accessVars>>
  /\ UNCHANGED <<alertsTicks, logPosts, lastTick, run>>

(***************************************************************************)
(* Specification of the Alerts poll loop with up to MaxTicks ticks, in any *)
(* interleaving with the log-motion requests and the alert mode switch.    *)
(***************************************************************************)
NextAlertsPoll ==
  \/ AlertsTickStart(MaxTicks) /\ UNCHANGED <<pure, auth, sim, toggles, activeView, accessVars>>
  \/ \E i \in 1..MaxInFlight :
       AlertsLocalOk(i) /\ UNCHANGED <<pure, auth, sim, toggles, activeView, ticks, accessVars>>
  \/ \E i \in 1..MaxInFlight, channel \in ChannelStates :
       AlertsLocalFail(i, channel) /\ UNCHANGED <<pure, auth, sim, toggles, activeView, ticks, accessVars>>
  \/ \E i \in 1..MaxInFlight, response \in AlertsTelemetry :
       AlertsTelemetryDone(i, response) /\ UNCHANGED <<pure, auth, sim, toggles, activeView, ticks, accessVars>>
  \/ LogPostArrives /\ UNCHANGED <<pure, auth, sim, toggles, activeView, ticks, accessVars>>
  \/ LogPostFails /\ UNCHANGED <<pure, auth, sim, toggles, activeView, ticks, accessVars>>
  \/ \E b \in BOOLEAN : ToggleMode(JsBool(b)) /\ UNCHANGED frontVars

SpecAlertsPoll == InitAlertsRun /\ [][NextAlertsPoll]_vars

(***************************************************************************)
(* Specification of the alert mode switch: the tab polls, and its switch   *)
(* is the only client that changes the backend's alertMode.                *)
(***************************************************************************)
NextAlertsSwitch ==
  \/ AlertsTickStart(MaxTicks) /\ UNCHANGED <<pure, auth, sim, toggles, activeView, accessVars>>
  \/ \E i \in 1..MaxInFlight :
       AlertsLocalOk(i) /\ UNCHANGED <<pure, auth, sim, toggles, activeView, ticks, accessVars>>
  \/ \E i \in 1..MaxInFlight, channel \in ChannelStates :
       AlertsLocalFail(i, channel) /\ UNCHANGED <<pure, auth, sim, toggles, activeView, ticks, accessVars>>
  \/ \E i \in 1..MaxInFlight, response \in AlertsTelemetry :
       AlertsTelemetryDone(i, response) /\ UNCHANGED <<pure, auth, sim, toggles, activeView, ticks, accessVars>>
  \/ LogPostArrives /\ UNCHANGED <<pure, auth, sim, toggles, activeView, ticks, accessVars>>
  \/ LogPostFails /\ UNCHANGED <<pure, auth, sim, toggles, activeView, ticks, accessVars>>
  \/ handleAlertModeToggle
  \/ \E i \in 1..MaxPending : AlertModeToggleOk(i)
  \/ \E i \in 1..MaxPending : AlertModeToggleFails(i)

SpecAlertsSwitch == InitAlertsRun /\ [][NextAlertsSwitch]_vars

(***************************************************************************)
(* Specification of the Access & Safety poll loop with up to MaxTicks      *)
(* ticks, in any interleaving with the fire system switch.                 *)
(***************************************************************************)
InitAccessPoll ==
  /\ InitBackend
  /\ pure = NoSample
  /\ auth = InitAuth
  /\ sim = InitSim
  /\ toggles = <<>>
  /\ activeView = "access-safety"
  /\ ticks = 0
  /\ InitAlertsTab
  /\ InitAccessTab

NextAccessPoll ==
  \/ AccessTickStart(MaxTicks) /\ UNCHANGED <<pure, auth, sim, toggles, activeView, alertsVars>>
  \/ \E i \in 1..MaxInFlight :
       AccessLocalOk(i) /\ UNCHANGED <<pure, auth, sim, toggles, activeView, ticks, alertsVars>>
  \/ \E i \in 1..MaxInFlight, channel \in ChannelStates :
       AccessLocalFail(i, channel) /\ UNCHANGED <<pure, auth, sim, toggles, activeView, ticks, alertsVars>>
  \/ \E i \in 1..MaxInFlight, feeds \in HistoryCases :
       AccessHistoryOk(i, feeds) /\ UNCHANGED <<pure, auth, sim, toggles, activeView, ticks, alertsVars>>
  \/ \E i \in 1..MaxInFlight, channel \in ChannelStates :
       AccessHistoryFail(i, channel) /\ UNCHANGED <<pure, auth, sim, toggles, activeView, ticks, alertsVars>>
  \/ \E i \in 1..MaxInFlight, latest \in AccessLatestCases :
       AccessLatestDone(i, latest) /\ UNCHANGED <<pure, auth, sim, toggles, activeView, ticks, alertsVars>>
  \/ \E b \in BOOLEAN :
       calls < MaxToggles /\ FireSystemToggle(JsBool(b)) /\ UNCHANGED frontVars

SpecAccessPoll == InitAccessPoll /\ [][NextAccessPoll]_vars

(***************************************************************************)
(* Specification of the two polling tabs: either tab is open and polls.    *)
(***************************************************************************)
NextTabs ==
  \/ activeView = "alerts" /\ NextAlertsPoll
  \/ activeView = "access-safety" /\ NextAccessPoll

SpecTabs == InitPoll /\ [][NextTabs]_vars

(***************************************************************************)
(* Specification of the server: requests arrive, with any Authorization    *)
(* header, and are served.                                                 *)
(***************************************************************************)
NextServer ==
  \/ \E request \in Requests : Arrive(request) /\ UNCHANGED frontVars
  \/ Serve /\ UNCHANGED frontVars
  \/ \E i \in 1..MaxEsp, accepted \in BOOLEAN : LightControlRespond(i, accepted) /\ UNCHANGED frontVars

SpecServer == InitStore /\ [][NextServer]_vars

(***************************************************************************)
(* Specification of the poll loop of the Alerts tab with its scheduling:   *)
(* the interval timer fires as long as the tab is mounted, and every       *)
(* request of a tick is answered or fails.                                 *)
(***************************************************************************)
AlertsTimerFires ==
  AlertsTickStart(MaxTicks) /\ UNCHANGED <<pure, auth, sim, toggles, activeView, accessVars>>

AlertsRequestEnds ==
  \E i \in 1..MaxInFlight :
    /\ \/ AlertsLocalOk(i)
       \/ \E channel \in ChannelStates : AlertsLocalFail(i, channel)
       \/ \E response \in AlertsTelemetry : AlertsTelemetryDone(i, response)
    /\ UNCHANGED <<pure, auth, sim, toggles, activeView, ticks, accessVars>>

NextAlertsLive ==
  \/ AlertsTimerFires
  \/ AlertsRequestEnds
  \/ LogPostArrives /\ UNCHANGED <<pure, auth, sim, toggles, activeView, ticks, accessVars>>
  \/ LogPostFails /\ UNCHANGED <<pure, auth, sim, toggles, activeView, ticks, accessVars>>

SpecAlertsLive ==
  /\ InitAlertsRun
  /\ [][NextAlertsLive]_vars
  /\ WF_vars(AlertsTimerFires)
  /\ WF_vars(AlertsRequestEnds)

(***************************************************************************)
(* Specification of the teardown of the Alerts tab: the tab polls, and at  *)
(* some point another tab is selected.                                     *)
(***************************************************************************)
NextTeardown ==
  \/ NextAlertsPoll
  \/ AlertsTeardown
  \/ \E i \in 1..MaxInFlight, response \in AlertsTelemetry, eager \in BOOLEAN :
       /\ AlertsTelemetryDoneUnmounted(i, response, eager)
       /\ UNCHANGED <<pure, auth, sim, toggles, activeView, ticks, accessVars>>

SpecTeardown == InitAlertsRun /\ [][NextTeardown]_vars

(***************************************************************************)
(* Specification of the login and signup form.                             *)
(***************************************************************************)
NextAuth ==
  \/ ToggleView
  \/ \E email \in Emails, password \in Passwords, outcome \in {"answer", "failed", "network"} :
       handleSubmit(email, password, outcome)
  \/ \E outcome \in {"answer", "network"} : logout(outcome)

SpecAuth == InitStore /\ [][NextAuth]_vars

(***************************************************************************)
(* Specification of the store: the control requests of every route, in any *)
(* order, and the reads of the alerts.                                     *)
(***************************************************************************)
NextStore ==
  \/ \E v \in JsValues : ToggleMode(v) /\ UNCHANGED frontVars
  \/ GetAlerts /\ UNCHANGED frontVars
  \/ \E body \in LogBodies : calls < MaxCalls /\ LogMotion(body) /\ UNCHANGED frontVars
  \/ \E num \in EmployeeNumbers : RfidScan(1, num) /\ UNCHANGED frontVars
  \/ \E b \in BOOLEAN :
       LightControl([autoMode |-> JsBool(b), lightOn |-> Undefined]) /\ UNCHANGED frontVars
  \/ \E i \in 1..MaxEsp, accepted \in BOOLEAN : LightControlRespond(i, accepted) /\ UNCHANGED frontVars
  \/ \E v \in JsValues : FireSystemToggle(v) /\ UNCHANGED frontVars
  \/ FireTest /\ UNCHANGED frontVars

SpecStore == InitStore /\ [][NextStore]_vars

(***************************************************************************)
(* Specification of the signup route: requests in any interleaving.        *)
(***************************************************************************)
NextSignup ==
  \/ \E email \in Emails, password \in Passwords : SignupFind(email, password)
  \/ \E i \in 1..MaxSignups, failed \in BOOLEAN : SignupCreate(i, failed)

SpecSignup == InitStore /\ [][NextSignup]_vars

(***************************************************************************)
(* Specification of the simulated Alerts tab: the timers run when due, the *)
(* switch is turned at any time.                                           *)
(***************************************************************************)
NextSim ==
  \/ SimToggle
  \/ \E motion \in BOOLEAN : SimTick(motion)
  \/ SimTimeout
  \/ SimAdvance

SpecSim ==
  /\ InitStore
  /\ [][NextSim]_vars
  /\ WF_vars(SimTimeout)
  /\ WF_vars(SimAdvance)
  /\ WF_vars(\E motion \in BOOLEAN : SimTick(motion))

(***************************************************************************)
(* Specification of the alert log: log-motion requests, one after another. *)
(***************************************************************************)
NextLog ==
  \E body \in LogBodies :
    calls < MaxLogCalls /\ LogMotion(body) /\ UNCHANGED frontVars

SpecLog == InitStore /\ [][NextLog]_vars

(***************************************************************************)
(* Specification of the attendance log: rfid scans, one after another, of  *)
(* the first employee name.                                                *)
(***************************************************************************)
NextScanLog ==
  \E num \in EmployeeNumbers :
    calls < MaxLogScans /\ RfidScanHandler(1, num) /\ UNCHANGED frontVars

SpecScanLog == InitStore /\ [][NextScanLog]_vars

(***************************************************************************)
(* Properties of the store.                                                *)
(***************************************************************************)
IsCall(route) == calls' = calls + 1 /\ req'.route = route

\* C1: a light-control request that carries a boolean lightOn and leaves
\* autoMode true (after its own autoMode field is applied) leaves lightOn equal
\* to ldrValue < 500, whatever value was requested.
C1_AutoModeOverridesLightOn ==
  [][ (IsCall("light-control") /\ IsBoolean(req'.body.lightOn) /\ smartLight'.autoMode)
        => smartLight'.lightOn = (smartLight'.ldrValue < LDR_THRESHOLD) ]_vars

\* C1 witness: lightOn = false was requested in auto mode and the light is on
C1_Witness ==
  /\ req.route = "light-control"
  /\ req.body.lightOn = JsBool(FALSE)
  /\ smartLight.autoMode
  /\ smartLight.lightOn

\* C2: a light-control request that carries only lightOn and arrives while
\* autoMode is true changes no field of smartLight.
C2_LightOnOnlyIsNoOp ==
  [][ (IsCall("light-control") /\ IsBoolean(req'.body.lightOn)
         /\ req'.body.autoMode = Undefined /\ smartLight.autoMode)
        => smartLight' = smartLight ]_vars

\* C8: an rfid-scan opens the gate, answers gateOpen = true and puts exactly
\* one new record at the head of attendance; the records that were there
\* follow it unchanged.
C8_ScanOpensGateAndAddsOneRecord ==
  [][ IsCall("rfid-scan")
        => /\ accessSafety'.gateOpen
           /\ res'.route = "rfid-scan" /\ res'.status = 200 /\ res'.body.gateOpen
           /\ accessSafety'.attendance
                = <<res'.body.newRecord>> \o accessSafety.attendance ]_vars

\* C8 witness: two scans have been answered and the gate is open
C8_Witness ==
  /\ req.route = "rfid-scan" /\ res.route = "rfid-scan"
  /\ Len(accessSafety.attendance) = Len(InitAttendance) + 2
  /\ accessSafety.gateOpen

\* C9: every scan is eventually followed by a closed gate; the scan answers
\* at once and leaves its close to a timer due 3 s later, the gate closes only
\* when a due timer runs, and once no timer is pending the gate is closed.
C9_GateEventuallyCloses ==
  /\ [](accessSafety.gateOpen => <>(~accessSafety.gateOpen))
  /\ []((gateTimers = <<>>) => ~accessSafety.gateOpen)
  /\ [][ IsCall("rfid-scan")
           => /\ res'.route = "rfid-scan" /\ res'.status = 200
              /\ gateTimers' = Append(gateTimers, now + GATE_CLOSE_MS) ]_vars
  /\ [][ (accessSafety.gateOpen /\ ~accessSafety'.gateOpen)
           => (gateTimers # <<>> /\ Head(gateTimers) <= now) ]_vars

\* C9 witness: after two scans both timers have run and the gate is closed
C9_Witness ==
  /\ Len(accessSafety.attendance) = Len(InitAttendance) + 2
  /\ gateTimers = <<>>
  /\ ~accessSafety.gateOpen
  /\ now >= GATE_CLOSE_MS

\* C10: alertHistory never holds more than 20 records, and a log-motion
\* request puts its record at index 0, moves every record one place down
\* unchanged, and drops the last record when the history held 20.
C10_LogKeepsNewestTwenty ==
  /\ [](Len(alertHistory) <= HISTORY_CAPACITY)
  /\ [][ IsCall("log-motion")
           => /\ alertHistory'[1] = res'.body.newAlert
              /\ alertHistory'[1].type \in {"Motion Detected", req'.body.type}
              /\ alertHistory'[1].status \in {"Active", req'.body.status}
              /\ Len(alertHistory')
                   = (IF Len(alertHistory) < HISTORY_CAPACITY
                      THEN Len(alertHistory) + 1 ELSE HISTORY_CAPACITY)
              /\ \A i \in 2..Len(alertHistory') :
                   alertHistory'[i] = alertHistory[i - 1] ]_vars

\* C10 witness: the history is full, and its oldest record was dropped for
\* the record of the last request
C10_Witness ==
  /\ Len(alertHistory) = HISTORY_CAPACITY
  /\ alertHistory[HISTORY_CAPACITY].id = "2"
  /\ alertHistory[1].type = "Unauthorized Movement"
  /\ alertHistory[2].type = "Motion Detected"

\* C11: attendance is a bounded log: it never holds more records than the
\* capacity of the event log, and a scan of a full log trims it.
C11_AttendanceBounded ==
  /\ [](Len(accessSafety.attendance) <= HISTORY_CAPACITY)
  /\ [][ (IsCall("rfid-scan") /\ Len(accessSafety.attendance) >= HISTORY_CAPACITY)
           => Len(accessSafety'.attendance) <= Len(accessSafety.attendance) ]_vars

(***************************************************************************)
(* Properties of the derivation.                                           *)
(***************************************************************************)
ThresholdOf(tab) ==
  IF tab = "alerts" THEN ALERTS_DATA_RECENCY_THRESHOLD_MS
  ELSE ACCESS_DATA_RECENCY_THRESHOLD_MS

\* C3: the flag a tick derives from a sample (motion in the Alerts tab, fire
\* in the Access & Safety tab) is true if and only if the sample's value is
\* greater than 0 and its age is at most the tab's recency threshold.
C3_EffectiveIffPositiveAndRecent ==
  pure.out # "none" =>
    ( (pure.out = "true")
        <=> (pure.hasValue /\ pure.raw > 0 /\ pure.dated
               /\ pure.age <= ThresholdOf(pure.tab)) )

\* C3 witness: a sample whose age is exactly the threshold is live, in both tabs
C3_Witness ==
  /\ pure.out = "true"
  /\ pure.tab = "access-safety"
  /\ pure.age = ACCESS_DATA_RECENCY_THRESHOLD_MS
  /\ pure.raw = 5

(***************************************************************************)
(* Properties of the Alerts poll loop.                                     *)
(***************************************************************************)
\* records of history that were not in start (history is start with records
\* put in front of it)
Appended(start, history) == Len(history) - Len(start)

\* records of start whose status is "Resolved" now and was not, and new
\* records that are "Resolved"
ResolvedSince(start, history) ==
  LET k == Appended(start, history)
  IN  Cardinality({i \in 1..Len(history) :
        /\ history[i].status = "Resolved"
        /\ (i > k => start[i - k].status # "Resolved")})

\* C4: after a tick that ran while the latest sample of the channel was older
\* than the threshold, the view shows no motion (Alerts tab), and no fire and
\* the access status "Unknown" (Access & Safety tab), whether the tab's
\* request to the backend succeeded or failed.
C4_StaleSampleNeverActive ==
  /\ (lastTick.n > 0 /\ lastTick.stale) => ~alertsData.motionDetected
  /\ (lastAccessTick.n > 0 /\ lastAccessTick.stale)
       => (~accessData.fireDetected /\ accessData.accessStatus = "Unknown")

\* C12: a tick whose control-API fetch fails still shows what the channel
\* says (motion in the Alerts tab, fire in the Access & Safety tab), and a
\* tick whose telemetry fetch fails still shows the fields it read from the
\* control API.
C12_OneSourceDoesNotBlockTheOther ==
  /\ [][ (lastTick'.n = lastTick.n + 1 /\ ~lastTick'.localOk)
           => alertsData'.motionDetected = lastTick'.active ]_vars
  /\ [][ (lastAccessTick'.n = lastAccessTick.n + 1 /\ ~lastAccessTick'.localOk)
           => accessData'.fireDetected = lastAccessTick'.active ]_vars
  /\ [][ (lastTick'.n = lastTick.n + 1 /\ lastTick'.localOk
           /\ lastTick'.telemetry.kind # "feed")
           => /\ alertsData'.alertMode = lastTick'.localData.alertMode
              /\ alertsData'.alertHistory = lastTick'.localData.alertHistory ]_vars
  /\ [][ (lastAccessTick'.n = lastAccessTick.n + 1 /\ lastAccessTick'.localOk)
           => /\ accessData'.gateOpen = lastAccessTick'.localData.gateOpen
              /\ accessData'.fireSystemOn = lastAccessTick'.localData.fireSystemOn ]_vars

\* C13: a tick whose control-API fetch succeeded and whose telemetry fetch
\* failed, in whichever way, ends with the flag false (motion in the Alerts
\* tab, fire in the Access & Safety tab), posts nothing, and shows the fields
\* it read from the control API.
C13_TelemetryFailureIsSafeFalse ==
  /\ [][ (lastTick'.n = lastTick.n + 1 /\ lastTick'.localOk
           /\ lastTick'.telemetry.kind # "feed")
           => /\ alertsData' = [alertMode      |-> lastTick'.localData.alertMode,
                                alertHistory   |-> lastTick'.localData.alertHistory,
                                motionDetected |-> FALSE]
              /\ logPosts' = logPosts
              /\ Len(alertsTicks') = Len(alertsTicks) - 1 ]_vars
  /\ [][ (lastAccessTick'.n = lastAccessTick.n + 1 /\ lastAccessTick'.localOk
           /\ lastAccessTick'.telemetry # "feed")
           => /\ ~accessData'.fireDetected
              /\ accessData'.accessStatus = "Unknown"
              /\ accessData'.latestRfidTag = JsonNull
              /\ accessData'.gateOpen = lastAccessTick'.localData.gateOpen
              /\ accessData'.fireSystemOn = lastAccessTick'.localData.fireSystemOn
              /\ Len(accessTicks') = Len(accessTicks) - 1 ]_vars

\* C14: a tick whose GET /data/alerts fails leaves alertMode, alertHistory
\* and motionDetected of the view model as they were, sends no log-motion
\* request and sends nothing to the backend.
C14_LocalFailureKeepsView ==
  [][ (lastTick'.n = lastTick.n + 1 /\ ~lastTick'.localOk)
        => /\ alertsData' = alertsData
           /\ logPosts' = logPosts
           /\ UNCHANGED backendVars ]_vars

\* C14 witness: a view with motion and a history, kept by a tick whose
\* control-API fetch failed
C14_Witness ==
  /\ lastTick.n > 1
  /\ ~lastTick.localOk
  /\ alertsData.motionDetected
  /\ alertsData.alertMode
  /\ alertsData.alertHistory # <<>>
  /\ alertsData = lastTick.prev

\* C5: four ticks one after another, alert mode on, every fetch and every
\* log-motion request succeeding, with motion flags false, true, true, false:
\* exactly one record is appended and exactly one record is changed to
\* "Resolved".
C5_OneAppendOneResolve ==
  (run.clean /\ run.eff = <<FALSE, TRUE, TRUE, FALSE>>
     /\ alertsTicks = <<>> /\ logPosts = 0)
    => /\ Appended(run.start, alertHistory) = 1
       /\ ResolvedSince(run.start, alertHistory) = 1

\* C6: a tick that reads what the tick before it read (the same answer of the
\* channel, the same answer of GET /alerts) leaves the view model as that tick
\* left it and posts no log-motion request.
C6_IdenticalTickIsIdempotent ==
  [][ (lastTick'.n = lastTick.n + 1 /\ lastTick.n > 0
         /\ lastTick.localOk /\ lastTick'.localOk
         /\ lastTick'.telemetry = lastTick.telemetry
         /\ lastTick'.localData = lastTick.localData)
        => (lastTick'.view = lastTick.view /\ ~lastTick'.posted) ]_vars

\* the tick of C7: field6 = "1", created_at = now, alertMode read true, no
\* motion in the view before
C7_Case ==
  /\ lastTick.n > 0 /\ lastTick.localOk
  /\ lastTick.telemetry = [kind |-> "feed", age |-> 0, field |-> JsonString(<<"1">>)]
  /\ lastTick.localData.alertMode
  /\ ~lastTick.prev.motionDetected

\* C7 as claimed: the view model of that tick has motionDetected = true and
\* the new record at the head of its alertHistory.
C7_ViewShowsNewRecord ==
  C7_Case
    => /\ lastTick.view.motionDetected
       /\ lastTick.view.alertHistory # <<>>
       /\ lastTick.view.alertHistory[1].type = "Unauthorized Movement"
       /\ lastTick.view.alertHistory[1].status = "Active"

\* C7 as amended: the view model of that tick has motionDetected = true and
\* the alertHistory that GET /alerts answered; the tick posts one log-motion
\* request, and the backend puts the record of a request it handles, with the
\* type and status of the request, at the head of its alertHistory.
C7_ViewShowsMotionAndPostsRecord ==
  /\ [](C7_Case
          => /\ lastTick.view.motionDetected
             /\ lastTick.view.alertHistory = lastTick.localData.alertHistory
             /\ lastTick.view.alertMode
             /\ lastTick.posted)
  /\ [][ (lastTick'.n = lastTick.n + 1)
           => logPosts' = logPosts + (IF lastTick'.posted THEN 1 ELSE 0) ]_vars
  /\ [][ (logPosts' = logPosts - 1 /\ IsCall("log-motion"))
           => /\ alertHistory'[1].type = "Unauthorized Movement"
              /\ alertHistory'[1].status = "Active"
              /\ alertHistory'[1].id = ToString(now) ]_vars

\* C7 witness: the tick of C7 has ended, and the backend has logged its record
C7_Witness ==
  /\ C7_Case
  /\ logPosts = 0
  /\ req.route = "log-motion"
  /\ alertHistory[1].status = "Active"
  /\ lastTick.view.alertHistory = InitAlertHistory

\* the routes of the dashboard router as names of handlers
HandlerRoutes == {RouterRoutes[k].route : k \in 1..Len(RouterRoutes)}

\* the request that arrived is one for a route of the dashboard router
ForRouterRoute ==
  /\ req.route = "request"
  /\ \E k \in 1..Len(RouterRoutes) :
       /\ req.body.method = RouterRoutes[k].method
       /\ req.body.path = DataPrefix \o RouterRoutes[k].path

\* the Authorization header carries a bearer token: a word after the scheme
CarriesToken(authHeader) ==
  /\ authHeader.present
  /\ Len(Split(authHeader.str)) >= 2
  /\ Split(authHeader.str)[2] # <<>>

\* the store and the timers of the backend
storeVars == <<smartLight, alertMode, alertHistory, accessSafety, gateTimers, espPending>>

\* C15: a request for a route of the dashboard router that carries no bearer
\* token is answered 401, one whose token fails verification is answered 403,
\* in both cases the store is unchanged and no timer is scheduled, and a route
\* handler runs only for a request whose token verifies.
C15_RouterRequiresToken ==
  [][ (ForRouterRoute /\ req'.route # "request")
        => LET authHeader == req.body.authorization
           IN  /\ ~CarriesToken(authHeader)
                    => res'.status = 401 /\ UNCHANGED storeVars
               /\ (CarriesToken(authHeader) /\ ~JwtVerifies(ExtractToken(authHeader)))
                    => res'.status = 403 /\ UNCHANGED storeVars
               /\ req'.route \in HandlerRoutes
                    => JwtVerifies(ExtractToken(authHeader)) ]_vars

\* C16: GET /api/data/monitoring with no Authorization header is answered with
\* the monitoring data, and a request for any other route of /api/data that
\* carries no token is answered 401.
C16_MonitoringIsPublic ==
  [][ (req.route = "request" /\ req.body.authorization = NoHeader
         /\ HasPrefix(req.body.path, DataPrefix) /\ req'.route # "request")
        => IF req.body.method = "GET" /\ req.body.path = DataPrefix \o <<"monitoring">>
             THEN req'.route = "monitoring" /\ res'.status = 200
             ELSE res'.status = 401 /\ UNCHANGED storeVars ]_vars

\* the kind of a credential error that the auth API answered
CredentialErrorKind(response) ==
  IF response.status = 409 THEN "email-in-use"
  ELSE IF response.status = 401 THEN "wrong-password-or-unknown-user"
  ELSE "none"

\* C17: after a submission that the auth API answered with a credential error
\* the form shows the message of that kind, and the form shows the generic
\* message only after an error of no such kind.
C17_MessagePerErrorKind ==
  /\ CredentialErrorKind(auth.response) = "email-in-use"
       => auth.error = "Email already in use."
  /\ CredentialErrorKind(auth.response) = "wrong-password-or-unknown-user"
       => auth.error = "Invalid email or password."
  /\ auth.error = "Authentication failed. Please try again."
       => CredentialErrorKind(auth.response) = "none"

\* C18: the smartLight object in the response of a light-control request is
\* the state that the request's own update produced, also when the response is
\* sent after the handler was suspended in its hardware call.
C18_ResponseIsOwnUpdate ==
  [][ (res'.route = "light-control" /\ res'.status = 200 /\ res' # res)
        => IF Len(espPending') < Len(espPending)
             THEN \E i \in 1..Len(espPending) :
                    /\ espPending' = RemoveAt(espPending, i)
                    /\ res'.body.smartLight = espPending[i].own
             ELSE res'.body.smartLight = UpdateSmartLight(smartLight, req'.body) ]_vars

\* C19: once the Alerts tab is torn down no new poll tick starts, and a tick
\* that was in flight changes no view model and sends no log-motion request.
C19_TeardownDiscardsTick ==
  [][ activeView # "alerts"
        => /\ ticks' = ticks
           /\ alertsData' = alertsData /\ accessData' = accessData
           /\ logPosts' <= logPosts ]_vars

ToggleSucceeds == IsCall("toggle-mode") /\ IsBoolean(req'.body.alertMode)

\* C21: a toggle-mode request with a boolean b leaves alertMode = b in the
\* store, every GET /alerts answers the alertMode of the store, and no step
\* other than a successful toggle-mode changes it.
C21_AlertModeRoundTrips ==
  /\ [][ ToggleSucceeds => alertMode' = req'.body.alertMode.val ]_vars
  /\ [][ (req'.route = "alerts" /\ res'.route = "alerts")
           => res'.body.alertMode = alertMode' ]_vars
  /\ [][ ~ToggleSucceeds => alertMode' = alertMode ]_vars

\* the mode was switched off, another control request was handled, and the
\* read that follows answers false
C21_Witness ==
  /\ res.route = "alerts" /\ res.body.alertMode = FALSE
  /\ calls >= 2 /\ ~alertMode

\* C22: a signup that found an account for its email creates none and is
\* answered 409, and the store never holds two accounts with the same email.
C22_OneAccountPerEmail ==
  /\ [](\A j, k \in 1..Len(auth.users) :
          auth.users[j].email = auth.users[k].email => j = k)
  /\ [][ \A i \in 1..Len(auth.signups) :
           (auth.signups[i].existingUser /\ auth'.signups = RemoveAt(auth.signups, i)
              /\ Len(auth'.signups) < Len(auth.signups))
             => auth'.users = auth.users /\ auth'.response.status = 409 ]_vars

\* C23: toggle-mode and fire-system-toggle with a value that is no boolean are
\* answered 400 and change nothing in the store; fire-test is answered 400
\* exactly when fireSystemOn is false and changes nothing in the store.
C23_RefusedRequestChangesNothing ==
  /\ [][ (IsCall("toggle-mode") /\ ~IsBoolean(req'.body.alertMode))
           => res'.status = 400 /\ UNCHANGED storeVars ]_vars
  /\ [][ (IsCall("fire-system-toggle") /\ ~IsBoolean(req'.body.fireSystemOn))
           => res'.status = 400 /\ UNCHANGED storeVars ]_vars
  /\ [][ IsCall("fire-test")
           => /\ res'.status = (IF accessSafety.fireSystemOn THEN 200 ELSE 400)
              /\ UNCHANGED storeVars ]_vars

\* the fire system was switched off and a fire test was refused
C23_Witness ==
  /\ res.route = "fire-test" /\ res.status = 400
  /\ ~accessSafety.fireSystemOn

\* C24: an Alerts poll tick sends a log-motion request only when the alertMode
\* it read is true, the effective motion is true and the view before the tick
\* showed no motion; a tick with alertMode false or motion false sends none.
C24_LogsOnlyNewMotion ==
  [][ logPosts' > logPosts
        => /\ lastTick'.n = lastTick.n + 1
           /\ lastTick'.localData.alertMode
           /\ lastTick'.active
           /\ ~alertsData.motionDetected ]_vars

\* the simulated tab shows a record with this id and this status
SimShows(id, status) ==
  \E k \in 1..Len(sim.alertHistory) :
    sim.alertHistory[k].id = id /\ sim.alertHistory[k].status = status

\* C25: a record is appended with status 'Active' together with a timeout due
\* 3 s later; the timeout changes the record at the head, which is that
\* record, to 'Resolved' without appending, and sets motionDetected to false;
\* only the head is ever 'Active', and every 'Active' record is eventually
\* 'Resolved'.
C25_ActiveRecordIsResolved ==
  /\ [][ Len(sim'.alertHistory) > Len(sim.alertHistory)
           => /\ sim'.alertHistory = <<[id |-> ToString(now), type |-> "Motion Detected",
                                        status |-> "Active"]>> \o sim.alertHistory
              /\ sim'.timeouts = Append(sim.timeouts, [due |-> now + SIM_RESOLVE_MS,
                                                       id |-> ToString(now)]) ]_vars
  /\ [][ Len(sim'.timeouts) < Len(sim.timeouts)
           => /\ now = Head(sim.timeouts).due
              /\ Len(sim'.alertHistory) = Len(sim.alertHistory)
              /\ sim.alertHistory[1].id = Head(sim.timeouts).id
              /\ sim'.alertHistory[1].status = "Resolved"
              /\ ~sim'.motionDetected ]_vars
  /\ [](\A k \in 2..Len(sim.alertHistory) : sim.alertHistory[k].status = "Resolved")
  /\ \A t \in 0..MaxSimClock :
       SimShows(ToString(t * ClockStep), "Active")
         ~> SimShows(ToString(t * ClockStep), "Resolved")

\* two records were appended and resolved, and the switch is off again
C25_Witness ==
  /\ Len(sim.alertHistory) = Len(SimInitHistory) + 2
  /\ sim.alertHistory[1].status = "Resolved"
  /\ sim.timeouts = <<>>
  /\ ~sim.alertMode

\* C26: light-control updates the store before the hardware call; when the
\* call ends, failed or not, the request is answered 200 'Light state updated'
\* with the smartLight of the store, and the store is left as it is, so the
\* store's lightOn may differ from the last command the ESP accepted.
C26_HardwareFailureIsAbsorbed ==
  /\ [][ Len(espPending') > Len(espPending)
           => /\ smartLight' = UpdateSmartLight(smartLight, req'.body)
              /\ espPending'[Len(espPending')].espCommand
                   = (IF smartLight'.lightOn THEN "on" ELSE "off")
              /\ espLed' = espLed ]_vars
  /\ [][ Len(espPending') < Len(espPending)
           => /\ res' = [route |-> "light-control", status |-> 200,
                         body |-> [message |-> "Light state updated",
                                   smartLight |-> smartLight']]
              /\ smartLight' = smartLight ]_vars

\* the ESP accepted 'on', a later command 'off' failed and was answered
C26_Witness ==
  /\ espPending = <<>>
  /\ espLed = "on"
  /\ ~smartLight.lightOn
  /\ ~smartLight.autoMode
  /\ IsBoolean(req.body.lightOn)
  /\ res.route = "light-control" /\ res.status = 200
  /\ res.body.smartLight.lightOn = FALSE

\* C27: in every reachable state of the store, the initial state included,
\* autoMode = true implies lightOn = (ldrValue < 500).
C27_AutoModeInvariant ==
  smartLight.autoMode => smartLight.lightOn = (smartLight.ldrValue < LDR_THRESHOLD)

\* C28: the gate is open at every moment between a scan and the expiry of
\* that scan's own timer, also when the timer of an earlier scan fires in
\* between.
C28_GateOpenForWholeDelay ==
  \A i \in 1..Len(gateTimers) : now < gateTimers[i] => accessSafety.gateOpen

\* C29: after a logout, failed or not, the stored token is removed and user is
\* null: the protected route shows the login page and a later request
\* carries no Authorization header.
C29_LogoutClearsSession ==
  auth.response.route = "signout"
    => /\ auth.token = "null"
       /\ auth.user = "null"
       /\ ProtectedRoute(auth.user) = "login"
       /\ ~RequestInterceptor(auth.token).present

\* C30: when the last pending toggle-mode request of the tab ends in a
\* failure, the view is reverted: the displayed alertMode equals the
\* backend's alertMode.
C30_FailedToggleIsReverted ==
  [][ (Len(toggles') < Len(toggles) /\ toggles' = <<>> /\ UNCHANGED alertMode)
        => alertsData'.alertMode = alertMode' ]_vars
====
